---- MODULE Spec2Model ----
(***************************************************************************)
(* UVA-Express: the calculate-uva and export-uva-xml edge functions over   *)
(* the invoices / uva_periods / audit_log tables, and the submission       *)
(* pipeline of the UVA engine.                                             *)
(*                                                                         *)
(* Money is counted in cents (the columns are NUMERIC(12,2)), VAT rates in *)
(* whole percent.  A nullable column holds <<>> (NULL) or <<v>>.           *)
(***************************************************************************)
EXTENDS Integers, Sequences, FiniteSets, TLC

VARIABLES
    invoices,       \* the signed-in user's completed invoices (rows of public.invoices)
    uva_periods,    \* rows of public.uva_periods, at most one per (user, year, month)
    audit_log,      \* rows of public.audit_log, in insertion order
    audit_up,       \* whether inserts into public.audit_log succeed
    resp,           \* the response of the last request served
    period_status,  \* submission pipeline: workflow status of each period
    submissions,    \* submission pipeline: SubmissionRecords, in creation order
    idem_store,     \* submission pipeline: idempotency store, entries in arrival order
    engine_audit,   \* submission pipeline: audit entries, in append order
    lock,           \* submission pipeline: holder of the store's lock, or NoCaller
    callers,        \* submission pipeline: per caller, its confirm call's position and result
    requests,       \* calculate-uva requests in flight, each at its next database call
    page,           \* the UVA page: selected period, engine results held, last request sent
    ocr             \* the ocr-invoice request in flight, at its next step

vars == <<invoices, uva_periods, audit_log, audit_up, resp,
          period_status, submissions, idem_store, engine_audit, lock, callers,
          requests, page, ocr>>

dbVars == <<invoices, uva_periods, audit_log, audit_up>>
pipelineVars == <<period_status, submissions, idem_store, engine_audit, lock, callers>>
clientVars == <<requests, page, ocr>>

----------------------------------------------------------------------------
(* Bounds of the model *)

MaxInvoices == 2
MaxAudit == 2

\* the capacity of the audit trail; a log is followed for MaxAudit entries from empty
\* and for MaxAudit entries from full
AuditCapacity == 1000

----------------------------------------------------------------------------
(* Values *)

NULL == <<>>
Some(v) == <<v>>

\* Number(x) || d : NULL and 0 both fall to the default
NumberOr(x, d) == IF x = NULL THEN d ELSE IF x[1] = 0 THEN d ELSE x[1]

Abs(v) == IF v < 0 THEN -v ELSE v

\* Math.round(n / d) for d > 0: the nearest integer, a half rounding up
RoundDiv(n, d) == (2 * n + d) \div (2 * d)

\* round2 of an amount held in cents: Math.round(v * 100) / 100
round2(v) == RoundDiv(v, 1)

\* String(n).padStart(2, "0") for n >= 0
PadStart2(n) == IF n < 10 THEN "0" \o ToString(n) ELSE ToString(n)

\* RATE_MAP[rate] || "022"
RATE_MAP(rate) ==
    CASE rate = 20 -> "022"
      [] rate = 10 -> "029"
      [] rate = 13 -> "006"
      [] rate = 19 -> "037"
      [] rate = 7  -> "007"
      [] OTHER     -> "022"

\* IG_RATE_MAP[rate] || "072"
IG_RATE_MAP(rate) ==
    CASE rate = 20 -> "072"
      [] rate = 10 -> "073"
      [] rate = 13 -> "008"
      [] rate = 19 -> "088"
      [] OTHER     -> "072"

\* the keys of the kz accumulator, all initialised to 0
KzKeys ==
    { "000_netto", "001_netto", "021_netto",
      "022_netto", "022_ust", "029_netto", "029_ust", "006_netto", "006_ust",
      "037_netto", "037_ust", "052_netto", "052_ust", "007_netto", "007_ust",
      "011_netto", "012_netto", "015_netto", "017_netto", "018_netto",
      "019_netto", "016_netto", "020_netto",
      "056_ust", "057_ust", "048_ust", "044_ust", "032_ust",
      "070_netto", "071_netto",
      "072_netto", "072_ust", "073_netto", "073_ust",
      "008_netto", "008_ust", "088_netto", "088_ust",
      "076_netto", "077_netto",
      "060_vorsteuer", "061_vorsteuer", "083_vorsteuer", "065_vorsteuer",
      "066_vorsteuer", "082_vorsteuer", "087_vorsteuer", "089_vorsteuer",
      "064_vorsteuer", "062_vorsteuer", "063_vorsteuer", "067_vorsteuer" }

\* an accumulator in which one bucket does not start at 0
KzInitCarried == [k \in KzKeys |-> IF k = "022_netto" THEN 100 ELSE 0]

\* const kz = { "000_netto": 0, ... }
KzInit == [k \in KzKeys |-> 0]

\* kz[key] += amount
KzAdd(kz, key, amount) == [kz EXCEPT ![key] = @ + amount]

StartsWithReverseCharge(treatment) ==
    treatment \in { "reverse_charge_19_1", "reverse_charge_19_1a", "reverse_charge_19_1b",
                    "reverse_charge_19_1d", "reverse_charge_19_1_3_4" }

----------------------------------------------------------------------------
(* calculate-uva: the invoice loop *)

AccInit ==
    [ kz |-> KzInit, ausgangCount |-> 0, eingangCount |-> 0, igCount |-> 0,
      rcCount |-> 0, warnings |-> <<>>, processedInvoiceIds |-> <<>> ]

\* inv.invoice_number || inv.id
InvoiceRef(inv) == IF inv.invoice_number = NULL THEN inv.id ELSE inv.invoice_number[1]

\* the "Betrag ist 0" check, which skips the invoice
IsZeroInvoice(net, gross) == net = 0 /\ gross = 0

\* the 2% VAT consistency check
VatWarnings(inv, net, vat, rate, treatment) ==
    IF treatment = "normal" /\ rate > 0 /\ net > 0
    THEN LET expectedVat == RoundDiv(net * rate, 100)
             diff == Abs(expectedVat - vat)
         IN  IF 100 * diff > 2 * expectedVat /\ expectedVat > 0
             THEN << [code |-> "vat_mismatch", ref |-> InvoiceRef(inv),
                      vat |-> vat, expected |-> expectedVat] >>
             ELSE <<>>
    ELSE <<>>

\* the ausgang mapping of the older revision: no total of supplies in KZ000
MapAusgangBefore(kz, net, vat, rate, treatment) ==
    LET kz0 == kz
        kz1 ==
            CASE treatment = "export"                 -> KzAdd(kz0, "011_netto", net)
              [] treatment = "ig_lieferung"           -> KzAdd(kz0, "017_netto", net)
              [] treatment = "lohnveredelung"         -> KzAdd(kz0, "012_netto", net)
              [] treatment = "dreiecksgeschaeft"      -> KzAdd(kz0, "017_netto", net)
              [] treatment = "fahrzeug_ohne_uid"      -> KzAdd(kz0, "018_netto", net)
              [] treatment = "grundstueck"            -> KzAdd(kz0, "019_netto", net)
              [] treatment = "kleinunternehmer"       -> KzAdd(kz0, "016_netto", net)
              [] treatment = "steuerbefreit_sonstige" -> KzAdd(kz0, "020_netto", net)
              [] OTHER ->
                    LET rateKZ == RATE_MAP(rate)
                    IN  KzAdd(KzAdd(kz0, rateKZ \o "_netto", net), rateKZ \o "_ust", vat)
    IN  IF StartsWithReverseCharge(treatment) \/ treatment = "ig_lieferung"
        THEN KzAdd(kz1, "021_netto", net)
        ELSE kz1

\* type === "ausgang"
MapAusgang(kz, net, vat, rate, treatment) ==
    LET kz0 == KzAdd(kz, "000_netto", net)
        kz1 ==
            CASE treatment = "export"                 -> KzAdd(kz0, "011_netto", net)
              [] treatment = "ig_lieferung"           -> KzAdd(kz0, "017_netto", net)
              [] treatment = "lohnveredelung"         -> KzAdd(kz0, "012_netto", net)
              [] treatment = "dreiecksgeschaeft"      -> KzAdd(kz0, "017_netto", net)
              [] treatment = "fahrzeug_ohne_uid"      -> KzAdd(kz0, "018_netto", net)
              [] treatment = "grundstueck"            -> KzAdd(kz0, "019_netto", net)
              [] treatment = "kleinunternehmer"       -> KzAdd(kz0, "016_netto", net)
              [] treatment = "steuerbefreit_sonstige" -> KzAdd(kz0, "020_netto", net)
              [] OTHER ->
                    LET rateKZ == RATE_MAP(rate)
                    IN  KzAdd(KzAdd(kz0, rateKZ \o "_netto", net), rateKZ \o "_ust", vat)
    IN  IF StartsWithReverseCharge(treatment) \/ treatment = "ig_lieferung"
        THEN KzAdd(kz1, "021_netto", net)
        ELSE kz1

\* the eingang treatments with a reverse charge branch
RcTreatments ==
    { "reverse_charge_19_1", "reverse_charge_19_1a", "reverse_charge_19_1b",
      "reverse_charge_19_1d", "reverse_charge_19_1_3_4" }

\* the buckets of the function's earlier revision
RcBucketsBefore(treatment) ==
    CASE treatment = "reverse_charge_19_1"     -> <<"057_ust", "083_vorsteuer">>
      [] treatment = "reverse_charge_19_1a"    -> <<"044_ust", "087_vorsteuer">>
      [] treatment = "reverse_charge_19_1b"    -> <<"032_ust", "089_vorsteuer">>
      [] treatment = "reverse_charge_19_1d"    -> <<"032_ust", "089_vorsteuer">>
      [] treatment = "reverse_charge_19_1_3_4" -> <<"048_ust", "066_vorsteuer">>

\* the output-VAT bucket and the credit bucket of an eingang reverse-charge treatment
RcBuckets(treatment) ==
    CASE treatment = "reverse_charge_19_1"     -> <<"057_ust", "066_vorsteuer">>
      [] treatment = "reverse_charge_19_1a"    -> <<"048_ust", "082_vorsteuer">>
      [] treatment = "reverse_charge_19_1b"    -> <<"044_ust", "087_vorsteuer">>
      [] treatment = "reverse_charge_19_1d"    -> <<"032_ust", "089_vorsteuer">>
      [] treatment = "reverse_charge_19_1_3_4" -> <<"057_ust", "066_vorsteuer">>

\* an eingang mapping whose IG branch fills the rate bucket only: no total in 070 and
\* no credit in 065
MapEingangRateOnly(kz, net, vat, rate, treatment) ==
    CASE treatment = "ig_erwerb" ->
            LET igKZ == IG_RATE_MAP(rate)
            IN  KzAdd(KzAdd(kz, igKZ \o "_netto", net), igKZ \o "_ust", vat)
      [] treatment \in RcTreatments ->
            KzAdd(KzAdd(kz, RcBuckets(treatment)[1], vat), RcBuckets(treatment)[2], vat)
      [] treatment = "einfuhr"           -> KzAdd(kz, "061_vorsteuer", vat)
      [] treatment = "eust_abgabenkonto" -> KzAdd(kz, "083_vorsteuer", vat)
      [] OTHER                           -> KzAdd(kz, "060_vorsteuer", vat)

\* type === "eingang"
MapEingang(kz, net, vat, rate, treatment) ==
    CASE treatment = "ig_erwerb" ->
            LET igKZ == IG_RATE_MAP(rate)
            IN  KzAdd(KzAdd(KzAdd(KzAdd(kz, igKZ \o "_netto", net), igKZ \o "_ust", vat),
                            "070_netto", net), "065_vorsteuer", vat)
      [] treatment \in RcTreatments ->
            KzAdd(KzAdd(kz, RcBuckets(treatment)[1], vat), RcBuckets(treatment)[2], vat)
      [] treatment = "einfuhr"           -> KzAdd(kz, "061_vorsteuer", vat)
      [] treatment = "eust_abgabenkonto" -> KzAdd(kz, "083_vorsteuer", vat)
      [] OTHER                           -> KzAdd(kz, "060_vorsteuer", vat)

\* one pass of the loop body over inv
ProcessInvoice(acc, inv) ==
    LET net == NumberOr(inv.net_amount, 0)
        vat == NumberOr(inv.vat_amount, 0)
        gross == NumberOr(inv.gross_amount, 0)
        rate == NumberOr(inv.vat_rate, 20)
        type == IF inv.invoice_type = NULL THEN "eingang" ELSE inv.invoice_type[1]
        treatment == IF inv.tax_treatment = NULL THEN "normal" ELSE inv.tax_treatment[1]
        seen == [acc EXCEPT !.processedInvoiceIds = Append(@, inv.id)]
    IN  IF IsZeroInvoice(net, gross)
        THEN [seen EXCEPT !.warnings = Append(@, [code |-> "zero", ref |-> InvoiceRef(inv)])]
        ELSE LET warned == [seen EXCEPT !.warnings = @ \o VatWarnings(inv, net, vat, rate, treatment)]
             IN  CASE type = "ausgang" ->
                        [warned EXCEPT !.ausgangCount = @ + 1,
                                       !.kz = MapAusgang(@, net, vat, rate, treatment)]
                   [] type = "eingang" ->
                        [warned EXCEPT !.eingangCount = @ + 1,
                                       !.igCount = IF treatment = "ig_erwerb" THEN @ + 1 ELSE @,
                                       !.rcCount = IF treatment \in RcTreatments THEN @ + 1 ELSE @,
                                       !.kz = MapEingang(@, net, vat, rate, treatment)]
                   [] OTHER -> warned

RECURSIVE ProcessInvoices(_, _)
\* for (const inv of (invoices || [])) { ... }
ProcessInvoices(acc, invs) ==
    IF invs = <<>> THEN acc
    ELSE ProcessInvoices(ProcessInvoice(acc, Head(invs)), Tail(invs))

----------------------------------------------------------------------------
(* calculate-uva: section totals, KZ 090, KZ 095, due date *)

\* Abschnitt 1
summeUst(kz) ==
    round2(kz["022_ust"] + kz["029_ust"] + kz["006_ust"] +
           kz["037_ust"] + kz["052_ust"] + kz["007_ust"])

\* Abschnitt 4
summeSteuerschuld(kz) ==
    round2(kz["056_ust"] + kz["057_ust"] + kz["048_ust"] + kz["044_ust"] + kz["032_ust"])

\* Abschnitt 5
summeIGUst(kz) ==
    round2(kz["072_ust"] + kz["073_ust"] + kz["008_ust"] + kz["088_ust"])

gesamtUst(kz) == round2(summeUst(kz) + summeSteuerschuld(kz) + summeIGUst(kz))

\* KZ 090: Gesamtbetrag der abziehbaren Vorsteuer
kz090(kz) ==
    round2(kz["060_vorsteuer"] + kz["061_vorsteuer"] + kz["083_vorsteuer"] +
           kz["065_vorsteuer"] + kz["066_vorsteuer"] + kz["082_vorsteuer"] +
           kz["087_vorsteuer"] + kz["089_vorsteuer"] + kz["064_vorsteuer"] -
           Abs(kz["062_vorsteuer"]) +
           kz["063_vorsteuer"] + kz["067_vorsteuer"])

\* KZ 095: positive = Zahllast, negative = Gutschrift
kz095(kz) == round2(gesamtUst(kz) - kz090(kz))

dueMonth(month) == IF month + 2 > 12 THEN month + 2 - 12 ELSE month + 2
\* a due date that stays in the year of the period
dueYearOfPeriod(year, month) == year

dueYear(year, month) == IF month + 2 > 12 THEN year + 1 ELSE year
dueDate(year, month) ==
    ToString(dueYear(year, month)) \o "-" \o PadStart2(dueMonth(month)) \o "-15"

\* the columns of uva_periods that uvaData sets; column kzNNN_x is named by its key NNN_x
\* legacy columns, always written as 0
LegacyCols == { "000_ust", "001_ust", "021_ust" }
RowCols == KzKeys \cup LegacyCols \cup { "090_betrag", "095_betrag", "zahllast" }

\* const uvaData = { ... }
uvaData(user, year, month, kz) ==
    [ user_id |-> user, period_year |-> year, period_month |-> month,
      status |-> "calculated",
      cols |-> [c \in RowCols |->
                  CASE c \in LegacyCols    -> 0
                    [] c = "090_betrag"    -> kz090(kz)
                    [] c = "095_betrag"    -> kz095(kz)
                    [] c = "zahllast"      -> kz095(kz)
                    [] OTHER               -> round2(kz[c])],
      due_date |-> dueDate(year, month) ]

----------------------------------------------------------------------------
(* calculate-uva: the request handler *)

\* validateInput: year an integer in 2000..2100, month an integer in 1..12
MinYear == 2000
MaxYear == 2100

\* a check of the month alone: any year passes
validateMonthOnly(body) ==
    /\ body.year # NULL
    /\ body.month # NULL /\ body.month[1] >= 1 /\ body.month[1] <= 12

\* typeof number, Number.isInteger and range of year and month; NULL is a value that
\* is no integer
validateInput(body) ==
    /\ body.year # NULL /\ body.year[1] >= MinYear /\ body.year[1] <= MaxYear
    /\ body.month # NULL /\ body.month[1] >= 1 /\ body.month[1] <= 12

\* a selection without the user filter
SelectInvoicesOfAll(user, year, month) ==
    SelectSeq(invoices, LAMBDA inv :
        /\ inv.ocr_status = "completed"
        /\ inv.invoice_month = Some(<<year, month>>))

\* the invoice query: user_id = user, ocr_status = completed, startDate <= invoice_date < endDate
SelectInvoices(user, year, month) ==
    SelectSeq(invoices, LAMBDA inv :
        /\ inv.user_id = user
        /\ inv.ocr_status = "completed"
        /\ inv.invoice_month = Some(<<year, month>>))

\* .from("uva_periods").select("id").eq(user).eq(year).eq(month).maybeSingle()
ExistingPeriods(user, year, month) ==
    { r \in uva_periods : r.user_id = user /\ r.period_year = year /\ r.period_month = month }

NewId(rows) == Cardinality(rows) + 1

\* an update that patches the stored row: the new amounts are added to the old ones
UpsertPatched(data) ==
    LET existing == ExistingPeriods(data.user_id, data.period_year, data.period_month)
    IN  IF existing # {}
        THEN LET old == CHOOSE r \in existing : TRUE
                 row == [id |-> old.id] @@
                        [data EXCEPT !.cols = [c \in RowCols |-> old.cols[c] + data.cols[c]]]
             IN  [ rows |-> (uva_periods \ {old}) \cup {row}, row |-> row ]
        ELSE [ rows |-> uva_periods \cup {[id |-> NewId(uva_periods)] @@ data},
               row  |-> [id |-> NewId(uva_periods)] @@ data ]

\* update(uvaData).eq("id", existing.id)  or  insert(uvaData)
Upsert(data) ==
    LET existing == ExistingPeriods(data.user_id, data.period_year, data.period_month)
    IN  IF existing # {}
        THEN LET old == CHOOSE r \in existing : TRUE
             IN  [ rows |-> (uva_periods \ {old}) \cup {[id |-> old.id] @@ data},
                   row  |-> [id |-> old.id] @@ data ]
        ELSE [ rows |-> uva_periods \cup {[id |-> NewId(uva_periods)] @@ data},
               row  |-> [id |-> NewId(uva_periods)] @@ data ]

CalcAuditEntry(user, year, month, row, n, acc) ==
    [ user_id |-> user, action |-> "uva_calculated", entity_type |-> "uva_period",
      entity_id |-> row.id,
      details |-> [ period |-> ToString(year) \o "-" \o PadStart2(month),
                    invoice_count |-> n,
                    ausgang_count |-> acc.ausgangCount, eingang_count |-> acc.eingangCount,
                    ig_count |-> acc.igCount, rc_count |-> acc.rcCount,
                    kz095 |-> kz095(acc.kz), warnings |-> acc.warnings ] ]

CalcSummary(n, acc) ==
    [ invoiceCount |-> n,
      ausgangCount |-> acc.ausgangCount, eingangCount |-> acc.eingangCount,
      igCount |-> acc.igCount, rcCount |-> acc.rcCount,
      kz000 |-> round2(acc.kz["000_netto"]), kz021 |-> round2(acc.kz["021_netto"]),
      summeUst |-> summeUst(acc.kz), summeSteuerschuld |-> summeSteuerschuld(acc.kz),
      summeIGUst |-> summeIGUst(acc.kz), gesamtUst |-> gesamtUst(acc.kz),
      kz090 |-> kz090(acc.kz), kz095 |-> kz095(acc.kz), warnings |-> acc.warnings ]

\* a handler in which a failed audit insert fails the request: nothing is stored and
\* the answer is 500
CalculateUvaStrict(user, body) ==
    /\ Len(audit_log) % AuditCapacity < MaxAudit
    /\ IF ~validateInput(body)
       THEN /\ resp' = [op |-> "calculate", status |-> 400, request |-> body]
            /\ UNCHANGED dbVars
       ELSE LET year == body.year[1]
                month == body.month[1]
            IN  \E selected \in {SelectInvoices(user, year, month)} :
                \E acc \in {ProcessInvoices(AccInit, selected)} :
                \E up \in {Upsert(uvaData(user, year, month, acc.kz))} :
                    IF audit_up
                    THEN /\ uva_periods' = up.rows
                         /\ audit_log' = Append(audit_log,
                                CalcAuditEntry(user, year, month, up.row, Len(selected), acc))
                         /\ resp' = [op |-> "calculate", status |-> 200, request |-> body,
                                     data |-> up.row,
                                     summary |-> CalcSummary(Len(selected), acc)]
                         /\ UNCHANGED <<invoices, audit_up>>
                    ELSE /\ resp' = [op |-> "calculate", status |-> 500, request |-> body]
                         /\ UNCHANGED dbVars
    /\ UNCHANGED <<pipelineVars, clientVars>>

\* an authorised POST to calculate-uva
CalculateUva(user, body) ==
    /\ Len(audit_log) % AuditCapacity < MaxAudit
    /\ IF ~validateInput(body)
       THEN /\ resp' = [op |-> "calculate", status |-> 400, request |-> body]
            /\ UNCHANGED dbVars
       ELSE LET year == body.year[1]
                month == body.month[1]
            IN  \E selected \in {SelectInvoices(user, year, month)} :
                \E acc \in {ProcessInvoices(AccInit, selected)} :
                \E up \in {Upsert(uvaData(user, year, month, acc.kz))} :
                    /\ uva_periods' = up.rows
                    /\ audit_log' =
                         IF audit_up
                         THEN Append(audit_log,
                                CalcAuditEntry(user, year, month, up.row, Len(selected), acc))
                         ELSE audit_log
                    /\ resp' = [op |-> "calculate", status |-> 200, request |-> body,
                                data |-> up.row, summary |-> CalcSummary(Len(selected), acc)]
                    /\ UNCHANGED <<invoices, audit_up>>
    /\ UNCHANGED <<pipelineVars, clientVars>>

----------------------------------------------------------------------------
(* export-uva-xml *)

\* a text is a sequence of characters
Digits == { "0", "1", "2", "3", "4", "5", "6", "7", "8", "9" }
Letters ==
    { "a", "b", "c", "d", "e", "f", "g", "h", "i", "j", "k", "l", "m",
      "n", "o", "p", "q", "r", "s", "t", "u", "v", "w", "x", "y", "z",
      "A", "B", "C", "D", "E", "F", "G", "H", "I", "J", "K", "L", "M",
      "N", "O", "P", "Q", "R", "S", "T", "U", "V", "W", "X", "Y", "Z" }
\* the characters the regular expression [^a-zA-Z0-9\/\-] keeps
AllowedChars == Letters \cup Digits \cup { "/", "-" }

MaxSteuernummerLen == 20
DefaultSteuernummer == << "0", "0", "0", "/", "0", "0", "0", "0" >>

\* the cleaning without its || "000/0000"
CleanWithoutDefault(chars) ==
    LET kept == SelectSeq(chars, LAMBDA ch : ch \in AllowedChars)
    IN  SubSeq(kept, 1, IF Len(kept) < MaxSteuernummerLen THEN Len(kept) ELSE MaxSteuernummerLen)

\* steuernummer.replace(/[^a-zA-Z0-9\/\-]/g, "").substring(0, 20) || "000/0000"
CleanSteuernummer(chars) ==
    LET kept == SelectSeq(chars, LAMBDA ch : ch \in AllowedChars)
        cut == SubSeq(kept, 1, IF Len(kept) < MaxSteuernummerLen THEN Len(kept) ELSE MaxSteuernummerLen)
    IN  IF cut = <<>> THEN DefaultSteuernummer ELSE cut

\* validateExportInput: a body's steuernummer is NULL (absent), [type |-> "string", val |-> chars]
\* or a value of another type; the result is Invalid or the cleaned request
Invalid == [ok |-> FALSE]
validateExportInput(body) ==
    IF ~validateInput(body) THEN Invalid
    ELSE IF body.steuernummer = NULL
         THEN [ok |-> TRUE, year |-> body.year[1], month |-> body.month[1],
               steuernummer |-> DefaultSteuernummer]
         ELSE LET given == body.steuernummer[1]
              IN  IF given.type # "string" \/ Len(given.val) > MaxSteuernummerLen
                  THEN Invalid
                  ELSE [ok |-> TRUE, year |-> body.year[1], month |-> body.month[1],
                        steuernummer |-> CleanSteuernummer(given.val)]

\* (val || 0).toFixed(2), val in cents
fmtAmt(val) ==
    LET c == Abs(val)
    IN  (IF val < 0 THEN "-" ELSE "") \o ToString(c \div 100) \o "." \o PadStart2(c % 100)

XmlEscChar(ch) ==
    CASE ch = "&"  -> << "&", "a", "m", "p", ";" >>
      [] ch = "<"  -> << "&", "l", "t", ";" >>
      [] ch = ">"  -> << "&", "g", "t", ";" >>
      [] ch = "\"" -> << "&", "q", "u", "o", "t", ";" >>
      [] ch = "'"  -> << "&", "a", "p", "o", "s", ";" >>
      [] OTHER     -> << ch >>

RECURSIVE xmlEsc(_)
xmlEsc(val) == IF val = <<>> THEN <<>> ELSE XmlEscChar(Head(val)) \o xmlEsc(Tail(val))

\* the children of KENNZAHLEN, in document order: <<element name, column>>
XmlFields ==
    << <<"KZ000", "000_netto">>, <<"KZ001", "001_netto">>, <<"KZ021", "021_netto">>,
       <<"KZ022_BMGL", "022_netto">>, <<"KZ022_STEUER", "022_ust">>,
       <<"KZ029_BMGL", "029_netto">>, <<"KZ029_STEUER", "029_ust">>,
       <<"KZ006_BMGL", "006_netto">>, <<"KZ006_STEUER", "006_ust">>,
       <<"KZ037_BMGL", "037_netto">>, <<"KZ037_STEUER", "037_ust">>,
       <<"KZ052_BMGL", "052_netto">>, <<"KZ052_STEUER", "052_ust">>,
       <<"KZ007_BMGL", "007_netto">>, <<"KZ007_STEUER", "007_ust">>,
       <<"KZ011", "011_netto">>, <<"KZ012", "012_netto">>, <<"KZ015", "015_netto">>,
       <<"KZ017", "017_netto">>, <<"KZ018", "018_netto">>,
       <<"KZ019", "019_netto">>, <<"KZ016", "016_netto">>, <<"KZ020", "020_netto">>,
       <<"KZ056", "056_ust">>, <<"KZ057", "057_ust">>, <<"KZ048", "048_ust">>,
       <<"KZ044", "044_ust">>, <<"KZ032", "032_ust">>,
       <<"KZ070", "070_netto">>, <<"KZ071", "071_netto">>,
       <<"KZ072_BMGL", "072_netto">>, <<"KZ072_STEUER", "072_ust">>,
       <<"KZ073_BMGL", "073_netto">>, <<"KZ073_STEUER", "073_ust">>,
       <<"KZ008_BMGL", "008_netto">>, <<"KZ008_STEUER", "008_ust">>,
       <<"KZ088_BMGL", "088_netto">>, <<"KZ088_STEUER", "088_ust">>,
       <<"KZ076", "076_netto">>, <<"KZ077", "077_netto">>,
       <<"KZ060", "060_vorsteuer">>, <<"KZ061", "061_vorsteuer">>,
       <<"KZ083", "083_vorsteuer">>, <<"KZ065", "065_vorsteuer">>,
       <<"KZ066", "066_vorsteuer">>, <<"KZ082", "082_vorsteuer">>,
       <<"KZ087", "087_vorsteuer">>, <<"KZ089", "089_vorsteuer">>,
       <<"KZ064", "064_vorsteuer">>, <<"KZ062", "062_vorsteuer">>,
       <<"KZ063", "063_vorsteuer">>, <<"KZ067", "067_vorsteuer">>,
       <<"KZ090", "090_betrag">>, <<"KZ095", "095_betrag">> >>

\* the KENNZAHLEN block: one element per entry of the template
Kennzahlen(uva) ==
    [i \in 1..Len(XmlFields) |->
        [tag |-> XmlFields[i][1], text |-> fmtAmt(uva.cols[XmlFields[i][2]])]]

\* the document; ERSTELLUNGSDATUM is the clock's date and is left out
buildUvaXml(uva, steuernummer) ==
    [ ART |-> "UVA",
      STEUERNUMMER |-> xmlEsc(steuernummer),
      ZEITRAUM |-> ToString(uva.period_year) \o "-" \o PadStart2(uva.period_month),
      ERKLAERUNG_art |-> "U30",
      JAHR |-> ToString(uva.period_year),
      MONAT |-> PadStart2(uva.period_month),
      KENNZAHLEN |-> Kennzahlen(uva) ]

ExportAuditEntry(user, year, month, uva, steuernummer) ==
    [ user_id |-> user, action |-> "uva_xml_exported", entity_type |-> "uva_period",
      entity_id |-> uva.id,
      details |-> [ period |-> ToString(year) \o "-" \o PadStart2(month),
                    steuernummer_provided |-> steuernummer # DefaultSteuernummer ] ]

\* an export that answers a period without a row with the document of an empty return
ExportUvaXmlEmpty(user, body) ==
    /\ Len(audit_log) % AuditCapacity < MaxAudit
    /\ LET parsed == validateExportInput(body)
       IN  IF ~parsed.ok
           THEN /\ resp' = [op |-> "export", status |-> 400, request |-> body]
                /\ UNCHANGED dbVars
           ELSE LET found == ExistingPeriods(user, parsed.year, parsed.month)
                    uva == IF found = {}
                           THEN [id |-> 0] @@ uvaData(user, parsed.year, parsed.month, KzInit)
                           ELSE CHOOSE r \in found : TRUE
                IN  /\ audit_log' =
                           IF audit_up
                           THEN Append(audit_log,
                                  ExportAuditEntry(user, parsed.year, parsed.month,
                                                   uva, parsed.steuernummer))
                           ELSE audit_log
                    /\ resp' = [op |-> "export", status |-> 200, request |-> body,
                                xml |-> buildUvaXml(uva, parsed.steuernummer)]
                    /\ UNCHANGED <<invoices, uva_periods, audit_up>>
    /\ UNCHANGED <<pipelineVars, clientVars>>

\* an authorised POST to export-uva-xml
ExportUvaXml(user, body) ==
    /\ Len(audit_log) % AuditCapacity < MaxAudit
    /\ LET parsed == validateExportInput(body)
       IN  IF ~parsed.ok
           THEN /\ resp' = [op |-> "export", status |-> 400, request |-> body]
                /\ UNCHANGED dbVars
           ELSE LET found == ExistingPeriods(user, parsed.year, parsed.month)
                IN  IF found = {}
                    THEN /\ resp' = [op |-> "export", status |-> 404, request |-> body]
                         /\ UNCHANGED dbVars
                    ELSE LET uva == CHOOSE r \in found : TRUE
                         IN  /\ audit_log' =
                                    IF audit_up
                                    THEN Append(audit_log,
                                           ExportAuditEntry(user, parsed.year, parsed.month,
                                                            uva, parsed.steuernummer))
                                    ELSE audit_log
                             /\ resp' = [op |-> "export", status |-> 200, request |-> body,
                                         xml |-> buildUvaXml(uva, parsed.steuernummer)]
                             /\ UNCHANGED <<invoices, uva_periods, audit_up>>
    /\ UNCHANGED <<pipelineVars, clientVars>>

----------------------------------------------------------------------------
(* The invoices the model draws from *)

UserA == "user-a"

\* the period the model's invoices are dated in
ThePeriod == <<2026, 3>>

\* an invoice row but for its id
Kind(type, treatment, rate, net, vat, gross, number) ==
    [ user_id |-> UserA, ocr_status |-> "completed", invoice_month |-> Some(ThePeriod),
      invoice_number |-> number,
      net_amount |-> net, vat_rate |-> rate, vat_amount |-> vat, gross_amount |-> gross,
      invoice_type |-> Some(type), tax_treatment |-> Some(treatment) ]

\* issued invoices: every rate of RATE_MAP, a rate outside it, a VAT amount that
\* does not fit the rate, a credit note, every tax-free treatment, a reverse charge
AusgangKinds ==
    << Kind("ausgang", "normal", Some(20), Some(100000), Some(20000), Some(120000), NULL),
       Kind("ausgang", "normal", Some(10), Some(30000), Some(3000), Some(33000), NULL),
       Kind("ausgang", "normal", Some(13), Some(20000), Some(2600), Some(22600), NULL),
       Kind("ausgang", "normal", Some(19), Some(10000), Some(2500), Some(12500), Some("RE-7")),
       Kind("ausgang", "normal", Some(7),  Some(11000), Some(770),  Some(11770), NULL),
       Kind("ausgang", "normal", Some(5),  Some(12000), Some(600),  Some(12600), NULL),
       Kind("ausgang", "normal", Some(20), Some(-5000), Some(-1000), Some(-6000), NULL),
       Kind("ausgang", "export", Some(20), Some(70000), NULL, Some(70000), NULL),
       Kind("ausgang", "ig_lieferung", Some(20), Some(71000), NULL, Some(71000), NULL),
       Kind("ausgang", "lohnveredelung", Some(20), Some(72000), NULL, Some(72000), NULL),
       Kind("ausgang", "dreiecksgeschaeft", Some(20), Some(73000), NULL, Some(73000), NULL),
       Kind("ausgang", "fahrzeug_ohne_uid", Some(20), Some(74000), NULL, Some(74000), NULL),
       Kind("ausgang", "grundstueck", Some(20), Some(75000), NULL, Some(75000), NULL),
       Kind("ausgang", "kleinunternehmer", Some(20), Some(76000), NULL, Some(76000), NULL),
       Kind("ausgang", "steuerbefreit_sonstige", Some(20), Some(77000), NULL, Some(77000), NULL),
       Kind("ausgang", "reverse_charge_19_1", Some(20), Some(78000), NULL, Some(78000), NULL) >>

\* received invoices: input tax, every rate of IG_RATE_MAP, every reverse charge,
\* import VAT, and a reverse charge invoice that carries a VAT amount only
EingangKinds ==
    << Kind("eingang", "normal", Some(20), Some(50000), Some(10000), Some(60000), NULL),
       Kind("eingang", "ig_erwerb", Some(20), Some(40000), Some(8000), Some(40000), NULL),
       Kind("eingang", "ig_erwerb", Some(10), Some(41000), Some(4100), Some(41000), NULL),
       Kind("eingang", "ig_erwerb", Some(13), Some(42000), Some(5460), Some(42000), NULL),
       Kind("eingang", "ig_erwerb", Some(19), Some(43000), Some(8170), Some(43000), NULL),
       Kind("eingang", "reverse_charge_19_1", Some(20), Some(21000), Some(4200), Some(21000), NULL),
       Kind("eingang", "reverse_charge_19_1a", Some(20), Some(25000), Some(5000), Some(25000), NULL),
       Kind("eingang", "reverse_charge_19_1b", Some(20), Some(26000), Some(5200), Some(26000), NULL),
       Kind("eingang", "reverse_charge_19_1d", Some(20), Some(27000), Some(5400), Some(27000), NULL),
       Kind("eingang", "reverse_charge_19_1_3_4", Some(20), Some(28000), Some(5600), Some(28000), NULL),
       Kind("eingang", "einfuhr", Some(20), Some(60000), Some(12000), Some(72000), NULL),
       Kind("eingang", "eust_abgabenkonto", Some(20), Some(61000), Some(12200), Some(73200), NULL),
       Kind("eingang", "reverse_charge_19_1a", NULL, NULL, Some(5000), NULL, NULL) >>

Catalogue == AusgangKinds \o EingangKinds

\* the tables of n rows; a table has no row order, so one order stands for all
Tables(n) ==
    { [i \in 1..n |-> [id |-> i] @@ Catalogue[f[i]]] :
        f \in { g \in [1..n -> 1..Len(Catalogue)] : \A i \in 1..(n - 1) : g[i] <= g[i + 1] } }

InvoiceTables == UNION { Tables(n) : n \in 0..MaxInvoices }

----------------------------------------------------------------------------
(* The requests the model sends *)

Body(year, month) == [year |-> year, month |-> month]
ExportBody(year, month, steuernummer) ==
    [year |-> year, month |-> month, steuernummer |-> steuernummer]
Text(chars) == [type |-> "string", val |-> chars]

CalcBodies == { Body(Some(2026), Some(3)) }

ExportBodies ==
    { ExportBody(Some(2026), Some(3), NULL),
      ExportBody(Some(2026), Some(3), Some(Text(<< "1", "2", " ", "3", "/", "4" >>))) }

NoResponse == [op |-> "none"]

----------------------------------------------------------------------------
(* PlausibilityValidator.  The engine that serves /api/uva/validate is not among
   the sources; the rules follow the specification's section on the validator. *)

\* 0.01, in cents
Tolerance == 1

RcPairs ==
    { <<"057_ust", "066_vorsteuer">>, <<"048_ust", "082_vorsteuer">>,
      <<"044_ust", "087_vorsteuer">>, <<"032_ust", "089_vorsteuer">> }

\* the plain sum of the twelve input-VAT-credit buckets
summeVorsteuer(kz_values) ==
    kz_values["060_vorsteuer"] + kz_values["061_vorsteuer"] + kz_values["083_vorsteuer"] +
    kz_values["065_vorsteuer"] + kz_values["066_vorsteuer"] + kz_values["082_vorsteuer"] +
    kz_values["087_vorsteuer"] + kz_values["089_vorsteuer"] + kz_values["064_vorsteuer"] +
    kz_values["062_vorsteuer"] + kz_values["063_vorsteuer"] + kz_values["067_vorsteuer"]

\* KZ 095 as the validator derives it from a KZ map, by the aggregation formula
kz095_recalculated(kz_values) ==
    gesamtUst(kz_values) - summeVorsteuer(kz_values) + kz_values["090_betrag"]

validate(kz_values) ==
    LET recalculated == kz095_recalculated(kz_values)
        matches == Abs(recalculated - kz_values["095_betrag"]) <= Tolerance
        igUst == kz_values["072_ust"] + kz_values["073_ust"] +
                 kz_values["008_ust"] + kz_values["088_ust"]
        errors ==
            (IF matches THEN {} ELSE { "kz095" })
            \cup { "rc_symmetry" : p \in { q \in RcPairs :
                       Abs(kz_values[q[1]] - kz_values[q[2]]) > Tolerance } }
            \cup (IF Abs(igUst - kz_values["065_vorsteuer"]) > Tolerance
                  THEN { "ig_symmetry" } ELSE {})
        warnings ==
            { "negative" : c \in { d \in RowCols \ { "090_betrag", "095_betrag", "zahllast" } :
                                     kz_values[d] < 0 } }
        infos == IF \A c \in RowCols : kz_values[c] = 0 THEN { "leermeldung" } ELSE {}
    IN  [ valid |-> errors = {}, errors |-> errors, warnings |-> warnings,
          infos |-> infos, bmf_plausibility_passed |-> errors = {},
          kz095_recalculated |-> recalculated, kz095_matches |-> matches ]

\* a bounded store: the oldest entry goes when the capacity is reached
PutBounded(store, entry, capacity) ==
    IF Len(store) >= capacity THEN Append(Tail(store), entry) ELSE Append(store, entry)

IdemCapacity == 10000

\* POST /api/uva/validate with a KZ map
ValidateUva(kz_values, year, month) ==
    /\ Len(engine_audit) < MaxAudit
    /\ resp' = [op |-> "validate", status |-> 200, request |-> kz_values,
                result |-> validate(kz_values)]
    /\ engine_audit' = PutBounded(engine_audit,
           [action |-> "validate", entity_type |-> "uva_period",
            entity_id |-> <<year, month>>], AuditCapacity)
    /\ UNCHANGED <<clientVars, dbVars, period_status, submissions, idem_store, lock, callers>>

----------------------------------------------------------------------------
(* SubmissionPipeline.confirm and its idempotency store.  The engine that serves
   /api/uva/submission/confirm is not among the sources; this part follows the
   specification's section on the submission pipeline and the test report. *)

MaxCallers == 2

Callers == 1..MaxCallers
NoCaller == 0
Keys == { "K1", "K2" }
Periods == { <<2026, 3>>, <<2026, 4>> }
References == { Some("FON-1") }

STATUS_ORDER ==
    << "entwurf", "berechnet", "validiert", "freigegeben", "eingereicht", "bestaetigt" >>
OpenStatuses == { "entwurf", "berechnet", "validiert", "freigegeben" }
FinalStatuses == { "eingereicht", "bestaetigt" }

NoResult == [success |-> FALSE, message |-> "none", was_duplicate |-> FALSE]
Idle == [pc |-> "idle", period |-> <<0, 0>>, key |-> "", reference |-> NULL,
         result |-> NoResult]

\* a lookup with the comparison of the period turned round
ProcessedOtherPeriod(key, period) ==
    { i \in 1..Len(idem_store) :
        idem_store[i].idempotency_key = key /\ idem_store[i].period # period }

\* the entries of the idempotency store for this key and exactly this period
Processed(key, period) ==
    { i \in 1..Len(idem_store) :
        idem_store[i].idempotency_key = key /\ idem_store[i].period = period }

SubmissionRecord(key, period, status, reference) ==
    [ idempotency_key |-> key, period |-> period, status |-> status,
      finanzonline_reference |-> reference ]

\* a store without a lock
LockIgnored(c) == c \in Callers

\* the caller may take the lock of the store
LockFree(c) == lock = NoCaller

\* a caller sends confirm(period, idempotency_key, reference)
ConfirmCall(c) ==
    /\ callers[c].pc = "idle"
    /\ Len(engine_audit) < MaxAudit
    /\ \E period \in Periods, key \in Keys, reference \in References :
         callers' = [callers EXCEPT ![c] =
                        [pc |-> "acquire", period |-> period, key |-> key,
                         reference |-> reference, result |-> NoResult]]
    /\ UNCHANGED <<clientVars, dbVars, resp, period_status, submissions, idem_store, engine_audit, lock>>

\* the call waits for the lock of the idempotency store
ConfirmAcquire(c) ==
    /\ callers[c].pc = "acquire"
    /\ LockFree(c)
    /\ lock' = c
    /\ callers' = [callers EXCEPT ![c].pc = "check"]
    /\ UNCHANGED <<clientVars, dbVars, resp, period_status, submissions, idem_store, engine_audit>>

\* the call looks its key up: a processed key replays the stored result, any other
\* key goes on as a new submission, also when the period is final already
ConfirmCheck(c) ==
    /\ callers[c].pc = "check"
    /\ LET me == callers[c]
           hits == Processed(me.key, me.period)
       IN  callers' = [callers EXCEPT ![c] =
             IF hits # {}
             THEN [me EXCEPT !.pc = "release",
                      !.result = [idem_store[CHOOSE i \in hits : TRUE].result
                                     EXCEPT !.was_duplicate = TRUE]]
             ELSE [me EXCEPT !.pc = "commit"]]
    /\ UNCHANGED <<clientVars, dbVars, resp, period_status, submissions, idem_store, engine_audit, lock>>

\* the call moves the period on, records the result under its key and audits it
ConfirmCommit(c) ==
    /\ callers[c].pc = "commit"
    /\ LET me == callers[c]
       IN  \E status \in FinalStatuses :
           \E result \in {[success |-> TRUE, message |-> status, was_duplicate |-> FALSE]} :
             /\ period_status' = [period_status EXCEPT ![me.period] = status]
             /\ submissions' = Append(submissions,
                    SubmissionRecord(me.key, me.period, status, me.reference))
             /\ idem_store' = PutBounded(idem_store,
                    [idempotency_key |-> me.key, period |-> me.period, result |-> result],
                    IdemCapacity)
             /\ engine_audit' = PutBounded(engine_audit,
                    [action |-> "confirm", entity_type |-> "uva_period",
                     entity_id |-> me.period], AuditCapacity)
             /\ callers' = [callers EXCEPT ![c] = [me EXCEPT !.pc = "release",
                                                      !.result = result]]
    /\ UNCHANGED <<clientVars, dbVars, resp, lock>>

\* the call gives the lock back and returns its result
ConfirmRelease(c) ==
    /\ callers[c].pc = "release"
    /\ lock' = IF lock = c THEN NoCaller ELSE lock
    /\ callers' = [callers EXCEPT ![c].pc = "idle"]
    /\ UNCHANGED <<clientVars, dbVars, resp, period_status, submissions, idem_store, engine_audit>>

\* calculate-uva requests that can be in flight at once
MaxRequests == 2
Requests == 1..MaxRequests

\* const [selectedYear, setSelectedYear] = useState(now.getFullYear()) ... and the
\* engine hook's useState(null) results; `sent` is the last request the page sent
PageInit ==
    [ selectedYear |-> ThePeriod[1], selectedMonth |-> ThePeriod[2] - 1,
      calculationResult |-> NULL, submissionResult |-> NULL, sent |-> {} ]

\* no request in flight, the page as it opens
ClientInit ==
    /\ requests = [c \in Requests |-> [pc |-> "idle"]]
    /\ page = PageInit
    /\ ocr = [pc |-> "idle"]

PipelineInit ==
    /\ period_status = [p \in Periods |-> "validiert"]
    /\ submissions = <<>>
    /\ idem_store = <<>>
    /\ engine_audit = <<>>
    /\ lock = NoCaller
    /\ callers = [c \in Callers |-> Idle]

Init ==
    /\ invoices \in InvoiceTables
    /\ uva_periods = {}
    /\ audit_log = <<>>
    /\ audit_up = TRUE
    /\ resp = NoResponse
    /\ ClientInit
    /\ PipelineInit

Calculate == \E body \in CalcBodies : CalculateUva(UserA, body)
Export == \E body \in ExportBodies : ExportUvaXml(UserA, body)

Next ==
    \/ Calculate
    \/ Export

Spec == Init /\ [][Next]_vars

\* steuernummer inputs: every text of up to MaxTyped characters over a small
\* alphabet, alone or followed by a long run of one character, a missing one and
\* one that is not a string
MaxTyped == 2
Alphabet == { "a", " ", "&" }
Typed == UNION { [1..n -> Alphabet] : n \in 0..MaxTyped }
Run(ch, n) == [i \in 1..n |-> ch]
Runs == { <<>>, << "/" >>, Run("7", 18), Run("-", 19), Run(" ", 19) }
SteuernummerInputs ==
    { NULL, Some([type |-> "number", val |-> <<>>]) }
        \cup { Some(Text(t \o r)) : t \in Typed, r \in Runs }

ExportInputBodies ==
    { ExportBody(Some(2026), Some(3), stnr) : stnr \in SteuernummerInputs }
        \cup { ExportBody(Some(2026), NULL, NULL), ExportBody(Some(1999), Some(3), NULL),
               ExportBody(NULL, Some(3), NULL), ExportBody(Some(2101), Some(3), NULL),
               ExportBody(Some(2026), Some(0), NULL), ExportBody(Some(2026), Some(13), NULL) }
CalcInputBodies ==
    { Body(Some(2026), Some(3)), Body(Some(2026), Some(13)), Body(NULL, Some(3)),
      Body(Some(2026), Some(0)), Body(Some(2026), NULL),
      Body(Some(1999), Some(3)), Body(Some(2101), Some(3)) }

\* a table with nothing or with one invoice in it
InitExport ==
    /\ invoices \in { <<>>, << [id |-> 1] @@ Catalogue[1] >> }
    /\ uva_periods = {}
    /\ audit_log = <<>>
    /\ audit_up = TRUE
    /\ resp = NoResponse
    /\ ClientInit
    /\ PipelineInit

CalculateInput == \E body \in CalcInputBodies : CalculateUva(UserA, body)
ExportInput == \E body \in ExportInputBodies : ExportUvaXml(UserA, body)

NextExport ==
    \/ CalculateInput
    \/ ExportInput

SpecExport == InitExport /\ [][NextExport]_vars

\* the periods whose due date is asked for: every month of a few years, the
\* first and the last year that validateInput lets through among them
DueYears == { MinYear, 2024, 2026, MaxYear }
DueBodies == { Body(Some(y), Some(m)) : y \in DueYears, m \in 1..12 }

\* no invoices at all: every period is calculated as an empty declaration
InitDue ==
    /\ invoices = <<>>
    /\ uva_periods = {}
    /\ audit_log = <<>>
    /\ audit_up = TRUE
    /\ resp = NoResponse
    /\ ClientInit
    /\ PipelineInit

CalculateDue == \E body \in DueBodies : CalculateUva(UserA, body)

NextDue == CalculateDue

SpecDue == InitDue /\ [][NextDue]_vars

\* the KZ map of a calculated period goes to the validator as it is, or with a
\* KZ 095 that somebody has edited
Edited(kz_values) == [kz_values EXCEPT !["095_betrag"] = @ + 10000]
Validate ==
    \E row \in uva_periods :
    \E kz_values \in { row.cols, Edited(row.cols) } :
        ValidateUva(kz_values, row.period_year, row.period_month)

NextValidate ==
    \/ Calculate
    \/ Validate

SpecValidate == Init /\ [][NextValidate]_vars

\* the submission pipeline on its own: periods in any open status, concurrent callers
InitSubmit ==
    /\ invoices = <<>>
    /\ uva_periods = {}
    /\ audit_log = <<>>
    /\ audit_up = TRUE
    /\ resp = NoResponse
    /\ ClientInit
    /\ period_status \in { [p \in Periods |-> s] : s \in OpenStatuses }
    /\ submissions = <<>>
    /\ idem_store = <<>>
    /\ engine_audit = <<>>
    /\ lock = NoCaller
    /\ callers = [c \in Callers |-> Idle]

Call == \E c \in Callers : ConfirmCall(c)
Acquire == \E c \in Callers : ConfirmAcquire(c)
Check == \E c \in Callers : ConfirmCheck(c)
Commit == \E c \in Callers : ConfirmCommit(c)
Release == \E c \in Callers : ConfirmRelease(c)

NextSubmit ==
    \/ Call
    \/ Acquire
    \/ Check
    \/ Commit
    \/ Release

SpecSubmit == InitSubmit /\ [][NextSubmit]_vars

----------------------------------------------------------------------------
(* A period row that is already stored when calculate runs *)

\* status TEXT NOT NULL DEFAULT 'draft' CHECK (status IN ('draft','calculated','submitted'))
StatusValues == { "draft", "calculated", "submitted" }

\* the place of a stored status in entwurf -> berechnet -> ... -> eingereicht
StatusRank == [ draft |-> 1, calculated |-> 2, submitted |-> 5 ]

\* tables of one kind of sale and one kind of purchase
StoredTables ==
    { t \in InvoiceTables : \A i \in 1..Len(t) :
        \E k \in { 1, Len(AusgangKinds) + 1 } : t[i] = [id |-> i] @@ Catalogue[k] }

\* the row an earlier calculate over the table `before` left behind, in the status
\* the owner's row carries since then
StoredRow(status, before) ==
    [id |-> 1] @@ [ uvaData(UserA, ThePeriod[1], ThePeriod[2],
                            ProcessInvoices(AccInit, before).kz)
                    EXCEPT !.status = status ]

\* no row yet, or the row and the audit entry an earlier calculate left, when the
\* invoices of the period were the table `before`
InitStored ==
    /\ invoices \in StoredTables
    /\ audit_up \in BOOLEAN
    /\ \/ uva_periods = {} /\ audit_log = <<>>
       \/ \E status \in StatusValues, before \in StoredTables :
            /\ uva_periods = { StoredRow(status, before) }
            /\ audit_log = << CalcAuditEntry(UserA, ThePeriod[1], ThePeriod[2],
                                             StoredRow(status, before), Len(before),
                                             ProcessInvoices(AccInit, before)) >>
    /\ resp = NoResponse
    /\ ClientInit
    /\ PipelineInit

NextStored ==
    \/ Calculate
    \/ Export

SpecStored == InitStored /\ [][NextStored]_vars

----------------------------------------------------------------------------
(* SubmissionPipeline.prepare.  The engine that serves /api/uva/submission/prepare is
   not among the sources; the checklist follows the specification's section on the
   submission pipeline and the response the test report shows. *)

\* the checklist of prepare: six items of severity error, one of severity warning
Checklist(kz_values, period, steuernummer, linked) ==
    LET item(label, passed, severity) ==
            [label |-> label, passed |-> passed, severity |-> severity]
        calculated == kz_values # NULL
    IN  LET checked == CHOOSE v \in { IF calculated THEN validate(kz_values[1])
                                      ELSE [bmf_plausibility_passed |-> FALSE,
                                            kz095_matches |-> FALSE] } : TRUE
    IN  << item("steuernummer",
                /\ steuernummer # NULL
                /\ steuernummer[1].type = "string"
                /\ steuernummer[1].val # <<>>
                /\ Len(steuernummer[1].val) <= MaxSteuernummerLen
                /\ \A i \in 1..Len(steuernummer[1].val) : steuernummer[1].val[i] \in AllowedChars,
                "error"),
           item("calculated", calculated, "error"),
           item("bmf_plausibility", checked.bmf_plausibility_passed, "error"),
           item("kz095_consistent", checked.kz095_matches, "error"),
           item("xml_valid", calculated, "error"),
           item("not_confirmed", period_status[period] # "bestaetigt", "error"),
           item("invoices_linked", linked, "warning") >>

\* every failed item counted, whatever its severity
FailedItems(checklist) ==
    Cardinality({ i \in 1..Len(checklist) : ~checklist[i].passed })

\* blocking_issues: the failed items of severity error
BlockingIssues(checklist) ==
    Cardinality({ i \in 1..Len(checklist) :
                    ~checklist[i].passed /\ checklist[i].severity = "error" })

\* a prepare that moves the period on to next_status when it is ready
PrepareAndAdvance(kz_values, period, steuernummer, linked) ==
    LET current == period_status[period]
        place == CHOOSE i \in 1..Len(STATUS_ORDER) : STATUS_ORDER[i] = current
    IN  \E checklist \in { Checklist(kz_values, period, steuernummer, linked) } :
        \E ready \in { \A i \in 1..Len(checklist) :
                          checklist[i].severity = "error" => checklist[i].passed } :
        /\ resp' = [op |-> "prepare", status |-> 200,
                    request |-> [kz_values |-> kz_values, period |-> period,
                                 steuernummer |-> steuernummer, linked |-> linked],
                    result |-> [ready |-> ready,
                                current_status |-> current,
                                next_status |-> IF ready /\ place < Len(STATUS_ORDER)
                                                THEN Some(STATUS_ORDER[place + 1]) ELSE NULL,
                                checklist |-> checklist,
                                blocking_issues |-> BlockingIssues(checklist),
                                warnings |-> Cardinality({ i \in 1..Len(checklist) :
                                    ~checklist[i].passed /\ checklist[i].severity = "warning" }),
                                due_date |-> dueDate(period[1], period[2])]]
        /\ period_status' = IF ready /\ place < Len(STATUS_ORDER)
                            THEN [period_status EXCEPT ![period] = STATUS_ORDER[place + 1]]
                            ELSE period_status
        /\ UNCHANGED <<clientVars, dbVars, submissions, idem_store, engine_audit, lock, callers>>

\* POST /api/uva/submission/prepare {kz_values, year, month, steuernummer, invoices}
PrepareSubmission(kz_values, period, steuernummer, linked) ==
    LET current == period_status[period]
        place == CHOOSE i \in 1..Len(STATUS_ORDER) : STATUS_ORDER[i] = current
    IN  \E checklist \in { Checklist(kz_values, period, steuernummer, linked) } :
        \E ready \in { \A i \in 1..Len(checklist) :
                          checklist[i].severity = "error" => checklist[i].passed } :
        /\ resp' = [op |-> "prepare", status |-> 200,
                    request |-> [kz_values |-> kz_values, period |-> period,
                                 steuernummer |-> steuernummer, linked |-> linked],
                    result |-> [ready |-> ready,
                                current_status |-> current,
                                next_status |-> IF ready /\ place < Len(STATUS_ORDER)
                                                THEN Some(STATUS_ORDER[place + 1]) ELSE NULL,
                                checklist |-> checklist,
                                blocking_issues |-> BlockingIssues(checklist),
                                warnings |-> Cardinality({ i \in 1..Len(checklist) :
                                    ~checklist[i].passed /\ checklist[i].severity = "warning" }),
                                due_date |-> dueDate(period[1], period[2])]]
        /\ UNCHANGED <<clientVars, dbVars, pipelineVars>>

\* the requests the UI sends: the KZ map of the stored row, an edited one or none,
\* a steuernummer or none, with or without the invoices of the period
Prepare ==
    \E period \in { ThePeriod }, linked \in BOOLEAN :
    \E steuernummer \in { NULL, Some(Text(<< "1", "2", "/", "3" >>)) } :
    \E kz_values \in { NULL } \cup UNION { { Some(row.cols), Some(Edited(row.cols)) } :
                                             row \in uva_periods } :
        PrepareSubmission(kz_values, period, steuernummer, linked)

\* the period is not calculated yet, or its row is stored
InitPrepare ==
    /\ invoices = <<>>
    /\ uva_periods \in { {}, { StoredRow("calculated", << [id |-> 1] @@ Catalogue[1] >>) } }
    /\ audit_log = <<>>
    /\ audit_up = TRUE
    /\ resp = NoResponse
    /\ ClientInit
    /\ PipelineInit

\* prepare and the confirm calls of one caller
NextPrepare ==
    \/ Prepare
    \/ ConfirmCall(1)
    \/ ConfirmAcquire(1)
    \/ ConfirmCheck(1)
    \/ ConfirmCommit(1)
    \/ ConfirmRelease(1)

SpecPrepare == InitPrepare /\ [][NextPrepare]_vars

----------------------------------------------------------------------------
(* An audit table that is empty or holds as many entries as the audit trail's capacity *)

\* the empty period was calculated AuditCapacity times before, or never
InitFull ==
    /\ invoices \in StoredTables
    /\ audit_up = TRUE
    /\ \/ uva_periods = {} /\ audit_log = <<>>
       \/ /\ uva_periods = { StoredRow("calculated", <<>>) }
          /\ audit_log = [i \in 1..AuditCapacity |->
                            CalcAuditEntry(UserA, ThePeriod[1], ThePeriod[2],
                                           StoredRow("calculated", <<>>), 0, AccInit)]
    /\ resp = NoResponse
    /\ ClientInit
    /\ PipelineInit

SpecFull == InitFull /\ [][NextStored]_vars

----------------------------------------------------------------------------
(* calculate-uva, one database call at a time: requests of one user in flight together *)

\* .from("uva_periods").select("id") ... .maybeSingle(): the request learns whether
\* the period has a row
CalcSelectExisting(c, user, body) ==
    /\ requests[c].pc = "idle"
    /\ validateInput(body)
    /\ requests' = [requests EXCEPT ![c] =
          [ pc |-> "write", user |-> user, body |-> body,
            existing |-> { r.id : r \in ExistingPeriods(user, body.year[1], body.month[1]) } ]]
    /\ UNCHANGED <<dbVars, resp, pipelineVars, page, ocr>>

\* if (existing) update(uvaData).eq("id", existing.id) else insert(uvaData); an
\* insert for a key that has a row by now breaks UNIQUE(user_id, period_year,
\* period_month), the error is thrown and the catch block answers 500
CalcWrite(c) ==
    /\ requests[c].pc = "write"
    /\ \E me \in {requests[c]} :
       \E year \in {me.body.year[1]}, month \in {me.body.month[1]} :
       \E selected \in {SelectInvoices(me.user, year, month)} :
       \E acc \in {ProcessInvoices(AccInit, selected)} :
       \E up \in {Upsert(uvaData(me.user, year, month, acc.kz))} :
          IF me.existing = {} /\ ExistingPeriods(me.user, year, month) # {}
          THEN /\ requests' = [requests EXCEPT ![c] = [pc |-> "done", status |-> 500]]
               /\ resp' = [op |-> "calculate", status |-> 500, request |-> me.body]
               /\ UNCHANGED dbVars
          ELSE /\ uva_periods' = up.rows
               /\ audit_log' =
                    IF audit_up
                    THEN Append(audit_log,
                           CalcAuditEntry(me.user, year, month, up.row, Len(selected), acc))
                    ELSE audit_log
               /\ requests' = [requests EXCEPT ![c] =
                                  [pc |-> "done", status |-> 200, row |-> up.row]]
               /\ resp' = [op |-> "calculate", status |-> 200, request |-> me.body,
                           data |-> up.row, summary |-> CalcSummary(Len(selected), acc)]
               /\ UNCHANGED <<invoices, audit_up>>
    /\ UNCHANGED <<pipelineVars, page, ocr>>

SelectExisting == \E c \in Requests, body \in CalcBodies : CalcSelectExisting(c, UserA, body)
Write == \E c \in Requests : CalcWrite(c)

NextRace ==
    \/ SelectExisting
    \/ Write

SpecRace == InitStored /\ [][NextRace]_vars

----------------------------------------------------------------------------
(* The UVA page: month navigation and the requests its handlers send.  An engine
   result is kept as the period it was produced for; `sent` holds the requests of the
   handler that ran last.  The steuernummer field is filled in. *)

\* how many months the model navigates away from the month the page opened in
MaxNav == 1

\* the months the page opens in: the invoices' month, and a December
Opened == { ThePeriod, <<ThePeriod[1], 12>> }

InWindow(year, month0) ==
    \E o \in Opened : Abs((year * 12 + month0) - (o[1] * 12 + o[2] - 1)) <= MaxNav

\* ocr_status as far as the page's tables go: a row is completed, or a later OCR run
\* on it ended in error
OcrStatuses == { "completed", "error" }

\* the signed-in user's table: empty, or one row in either status
PageTables ==
    UNION { { [i \in 1..Len(t) |-> [t[i] EXCEPT !.ocr_status = st[i]]] :
                st \in [1..Len(t) -> OcrStatuses] } :
            t \in { u \in StoredTables : Len(u) <= 1 } }

PagePeriod == <<page.selectedYear, page.selectedMonth + 1>>

\* the rows of the period the edge function knows of: periods.find(...)
currentPeriod == ExistingPeriods(UserA, PagePeriod[1], PagePeriod[2])

handlePrev ==
    /\ \E year \in { IF page.selectedMonth = 0 THEN page.selectedYear - 1
                                               ELSE page.selectedYear },
          month \in { IF page.selectedMonth = 0 THEN 11 ELSE page.selectedMonth - 1 } :
         /\ InWindow(year, month)
         /\ page' = [page EXCEPT !.selectedYear = year, !.selectedMonth = month]
    /\ UNCHANGED <<dbVars, resp, pipelineVars, requests, ocr>>

handleNext ==
    /\ \E year \in { IF page.selectedMonth = 11 THEN page.selectedYear + 1
                                                ELSE page.selectedYear },
          month \in { IF page.selectedMonth = 11 THEN 0 ELSE page.selectedMonth + 1 } :
         /\ InWindow(year, month)
         /\ page' = [page EXCEPT !.selectedYear = year, !.selectedMonth = month]
    /\ UNCHANGED <<dbVars, resp, pipelineVars, requests, ocr>>

\* from("invoices").select("*").gte("invoice_date", periodStart).lt("invoice_date",
\* periodEnd), under the row policy auth.uid() = user_id, then the conversion of each
\* row: Number(x) || 0, Number(inv.vat_rate) || 20, inv.invoice_type || "eingang"
fetchInvoicesForEngine ==
    LET rows == SelectSeq(invoices, LAMBDA inv :
                    /\ inv.user_id = UserA
                    /\ inv.invoice_month = Some(PagePeriod))
    IN  [ i \in 1..Len(rows) |->
            [ id |-> rows[i].id,
              net_amount |-> NumberOr(rows[i].net_amount, 0),
              vat_rate |-> IF NumberOr(rows[i].vat_rate, 0) = 0 THEN 20
                           ELSE rows[i].vat_rate[1],
              vat_amount |-> NumberOr(rows[i].vat_amount, 0),
              gross_amount |-> NumberOr(rows[i].gross_amount, 0),
              invoice_type |-> IF rows[i].invoice_type = NULL THEN "eingang"
                               ELSE rows[i].invoice_type[1],
              tax_treatment |-> IF rows[i].tax_treatment = NULL THEN "normal"
                                ELSE rows[i].tax_treatment[1] ] ]

\* the request the edge function calculate-uva gets from useUVA().calculateUVA
EdgeCalculate == [ op |-> "calculate", to |-> "edge", period |-> PagePeriod ]

\* the engine is asked when the page found invoices; its answer becomes
\* calculationResult; the edge function is asked in either case
handleCalculate ==
    /\ \E invs \in { fetchInvoicesForEngine }, answered \in BOOLEAN :
         IF Len(invs) > 0
         THEN page' = [page EXCEPT
                  !.calculationResult = IF answered THEN Some(PagePeriod) ELSE @,
                  !.sent = { [ op |-> "calculate", to |-> "engine", period |-> PagePeriod,
                               invoices |-> invs ],
                             EdgeCalculate } ]
         ELSE /\ answered
              /\ page' = [page EXCEPT !.sent = { EdgeCalculate }]
    /\ UNCHANGED <<dbVars, resp, pipelineVars, requests, ocr>>

\* engine.validateUVA(engine.calculationResult.kz_values, selectedYear,
\* selectedMonth + 1, invoices)
handleValidate ==
    /\ page.calculationResult # NULL
    /\ page' = [page EXCEPT !.sent =
          { [ op |-> "validate", to |-> "engine", period |-> PagePeriod,
              uses |-> page.calculationResult[1], invoices |-> fetchInvoicesForEngine ] }]
    /\ UNCHANGED <<dbVars, resp, pipelineVars, requests, ocr>>

\* engine.prepareSubmission(engine.calculationResult.kz_values, ...); the engine's
\* answer for the period asked becomes submissionResult
handlePrepareSubmission ==
    /\ page.calculationResult # NULL
    /\ \E answered \in BOOLEAN, ready \in BOOLEAN :
         /\ ~answered => ~ready
         /\ page' = [page EXCEPT
               !.submissionResult =
                   IF answered THEN Some([period |-> PagePeriod, ready |-> ready]) ELSE @,
               !.sent = { [ op |-> "prepare", to |-> "engine", period |-> PagePeriod,
                            uses |-> page.calculationResult[1],
                            invoices |-> fetchInvoicesForEngine ] }]
    /\ UNCHANGED <<dbVars, resp, pipelineVars, requests, ocr>>

\* the engine exports the kz_values it holds; without them the edge function exports
\* the stored row (the button is disabled when there is neither)
handleExport ==
    /\ page.calculationResult # NULL \/ currentPeriod # {}
    /\ page' = [page EXCEPT !.sent =
          IF page.calculationResult # NULL
          THEN { [ op |-> "export", to |-> "engine", period |-> PagePeriod,
                   uses |-> page.calculationResult[1] ] }
          ELSE { [ op |-> "export", to |-> "edge", period |-> PagePeriod,
                   uses |-> PagePeriod ] }]
    /\ UNCHANGED <<dbVars, resp, pipelineVars, requests, ocr>>

\* SubmissionPipeline shows "Als eingereicht markieren" when result?.ready; the
\* request is for the selected period
handleConfirmSubmission ==
    /\ page.submissionResult # NULL
    /\ page.submissionResult[1].ready
    /\ page' = [page EXCEPT !.sent =
          { [ op |-> "confirm", to |-> "engine", period |-> PagePeriod,
              uses |-> page.submissionResult[1].period ] }]
    /\ UNCHANGED <<dbVars, resp, pipelineVars, requests, ocr>>

InitPage ==
    /\ invoices \in PageTables
    /\ uva_periods \in { {}, { StoredRow("calculated", <<>>) } }
    /\ audit_log = <<>>
    /\ audit_up = TRUE
    /\ resp = NoResponse
    /\ PipelineInit
    /\ requests = [c \in Requests |-> [pc |-> "idle"]]
    /\ \E o \in Opened : page = [PageInit EXCEPT !.selectedYear = o[1],
                                                 !.selectedMonth = o[2] - 1]
    /\ ocr = [pc |-> "idle"]

NextPage ==
    \/ handlePrev
    \/ handleNext
    \/ handleCalculate
    \/ handleValidate
    \/ handlePrepareSubmission
    \/ handleExport
    \/ handleConfirmSubmission

SpecPage == InitPage /\ [][NextPage]_vars

----------------------------------------------------------------------------
(* ocr-invoice, one await at a time *)

\* a second account
UserB == "user-b"
Users == { UserA, UserB }

\* uploaded rows wait for OCR; a completed row can be sent through OCR again
OcrTables ==
    UNION { { [i \in 1..Len(t) |-> [t[i] EXCEPT !.ocr_status = st[i]]] :
                st \in [1..Len(t) -> { "pending", "completed" }] } :
            t \in StoredTables }

\* what the AI can extract, as the row it makes
Extracted == { Catalogue[1], Catalogue[Len(AusgangKinds) + 1] }

\* catch (e): 500, the row is not touched
OcrCatch == [ocr EXCEPT !.pc = "done", !.status = 500]

\* the ownership check, then update({ ocr_status: "processing" })
OcrBegin(user, invoiceId) ==
    /\ ocr.pc \in { "idle", "done" }
    /\ IF invoices[invoiceId].user_id # user
       THEN /\ ocr' = [pc |-> "done", invoiceId |-> invoiceId, status |-> 403]
            /\ UNCHANGED invoices
       ELSE /\ ocr' = [pc |-> "download", invoiceId |-> invoiceId, status |-> 0]
            /\ invoices' = [invoices EXCEPT ![invoiceId].ocr_status = "processing"]
    /\ UNCHANGED <<uva_periods, audit_log, audit_up, resp, pipelineVars, requests, page>>

\* the data URL is parsed or the file downloaded, and the API key read; each can throw
OcrDownload ==
    /\ ocr.pc = "download"
    /\ \E ok \in BOOLEAN : ocr' = IF ok THEN [ocr EXCEPT !.pc = "ai"] ELSE OcrCatch
    /\ UNCHANGED <<dbVars, resp, pipelineVars, requests, page>>

\* fetch(ai gateway): on !aiResponse.ok the row is set to error, and the answer is
\* 429, 402 or, through the catch block, 500
OcrCallAi ==
    /\ ocr.pc = "ai"
    /\ \E status \in { 200, 429, 402, 500 } :
         IF status = 200
         THEN /\ ocr' = [ocr EXCEPT !.pc = "result"]
              /\ UNCHANGED invoices
         ELSE /\ ocr' = [ocr EXCEPT !.pc = "done", !.status = status]
              /\ invoices' = [invoices EXCEPT ![ocr.invoiceId].ocr_status = "error"]
    /\ UNCHANGED <<uva_periods, audit_log, audit_up, resp, pipelineVars, requests, page>>

\* the tool call is missing (AI_NO_RESULT) or JSON.parse throws, or the data is there
OcrReadResult ==
    /\ ocr.pc = "result"
    /\ \E ok \in BOOLEAN : ocr' = IF ok THEN [ocr EXCEPT !.pc = "update"] ELSE OcrCatch
    /\ UNCHANGED <<dbVars, resp, pipelineVars, requests, page>>

\* update({ ...extracted, ocr_status: "completed" }); on updateError DB_UPDATE_FAILED
OcrUpdate ==
    /\ ocr.pc = "update"
    /\ \/ /\ ocr' = OcrCatch
          /\ UNCHANGED invoices
       \/ \E extracted \in Extracted :
            /\ ocr' = [ocr EXCEPT !.pc = "done", !.status = 200]
            /\ invoices' = [invoices EXCEPT ![ocr.invoiceId] =
                               [id |-> ocr.invoiceId] @@ extracted]
    /\ UNCHANGED <<uva_periods, audit_log, audit_up, resp, pipelineVars, requests, page>>

InitOcr ==
    /\ invoices \in OcrTables
    /\ uva_periods = {}
    /\ audit_log = <<>>
    /\ audit_up = TRUE
    /\ resp = NoResponse
    /\ PipelineInit
    /\ ClientInit

Begin == \E user \in Users, invoiceId \in 1..Len(invoices) : OcrBegin(user, invoiceId)

NextOcr ==
    \/ Begin
    \/ OcrDownload
    \/ OcrCallAi
    \/ OcrReadResult
    \/ OcrUpdate

SpecOcr == InitOcr /\ [][NextOcr]_vars

----------------------------------------------------------------------------
(* Two accounts on one database *)

\* tables whose rows belong to either account
UsersTables ==
    UNION { { [i \in 1..Len(t) |-> [t[i] EXCEPT !.user_id = owner[i]]] :
                owner \in [1..Len(t) -> Users] } :
            t \in StoredTables }

\* the other account has calculated the period before, or nobody has
InitUsers ==
    /\ invoices \in UsersTables
    /\ uva_periods \in { {}, { [StoredRow("calculated", <<>>) EXCEPT !.user_id = UserB] } }
    /\ audit_log = <<>>
    /\ audit_up = TRUE
    /\ resp = NoResponse
    /\ PipelineInit
    /\ ClientInit

CalculateAny == \E user \in Users, body \in CalcBodies : CalculateUva(user, body)
ExportAny == \E user \in Users, body \in ExportBodies : ExportUvaXml(user, body)

NextUsers ==
    \/ CalculateAny
    \/ ExportAny

SpecUsers == InitUsers /\ [][NextUsers]_vars

----------------------------------------------------------------------------
(* Claims about calculate *)

Calculated == resp.op = "calculate" /\ resp.status = 200
Validated == resp.op = "validate" /\ resp.status = 200

\* the sum of a KZ map over a set of its keys
RECURSIVE SumOver(_, _)
SumOver(kz_values, keys) ==
    IF keys = {} THEN 0
    ELSE LET k == CHOOSE x \in keys : TRUE
         IN  kz_values[k] + SumOver(kz_values, keys \ {k})

UstBuckets ==
    { "022_ust", "029_ust", "006_ust", "037_ust", "052_ust", "007_ust",
      "056_ust", "057_ust", "048_ust", "044_ust", "032_ust",
      "072_ust", "073_ust", "008_ust", "088_ust" }
VorsteuerBuckets ==
    { "060_vorsteuer", "061_vorsteuer", "083_vorsteuer", "065_vorsteuer",
      "066_vorsteuer", "082_vorsteuer", "087_vorsteuer", "089_vorsteuer",
      "064_vorsteuer", "062_vorsteuer", "063_vorsteuer", "067_vorsteuer" }

\* C3: in the row that calculate returns, kz095 = gesamtUst - summeVorsteuer + kz090,
\* with gesamtUst the output VAT of the fifteen ust buckets and summeVorsteuer the
\* plain sum of the twelve credit buckets
C3_Kz095 ==
    Calculated =>
        LET c == resp.data.cols
        IN  c["095_betrag"] =
                SumOver(c, UstBuckets) - SumOver(c, VorsteuerBuckets) + c["090_betrag"]

\* the KZ map in the request is the one of a calculated period, as calculate wrote it
Untampered == Validated /\ \E row \in uva_periods : resp.request = row.cols

\* C4: for the KZ map of calculate, passed on as it is, the validator's
\* kz095_recalculated is the map's kz095 within 0.01, kz095_matches is true and
\* no kz095 error is reported
C4_ValidatorAgrees ==
    Untampered =>
        /\ Abs(resp.result.kz095_recalculated - resp.request["095_betrag"]) <= Tolerance
        /\ resp.result.kz095_matches
        /\ "kz095" \notin resp.result.errors

\* the invoices of the table that calculate maps for the period of its request
Mapped ==
    LET selected == SelectInvoices(UserA, resp.request.year[1], resp.request.month[1])
    IN  { i \in 1..Len(selected) :
            ~(NumberOr(selected[i].net_amount, 0) = 0 /\ NumberOr(selected[i].gross_amount, 0) = 0) }

\* the VAT of the received invoices among idx that carry one of the treatments
RECURSIVE VatOfEingang(_, _, _)
VatOfEingang(selected, idx, treatments) ==
    IF idx = {} THEN 0
    ELSE LET i == CHOOSE x \in idx : TRUE
             inv == selected[i]
         IN  (IF inv.invoice_type = Some("eingang") /\ inv.tax_treatment # NULL
                 /\ inv.tax_treatment[1] \in treatments
              THEN NumberOr(inv.vat_amount, 0) ELSE 0)
             + VatOfEingang(selected, idx \ {i}, treatments)

\* the reverse-charge pairs with the treatments that write to them
RcPairTreatments ==
    { <<"057_ust", "066_vorsteuer", { "reverse_charge_19_1", "reverse_charge_19_1_3_4" }>>,
      <<"048_ust", "082_vorsteuer", { "reverse_charge_19_1a" }>>,
      <<"044_ust", "087_vorsteuer", { "reverse_charge_19_1b" }>>,
      <<"032_ust", "089_vorsteuer", { "reverse_charge_19_1d" }>> }

\* C5: after calculate, the output-VAT bucket of each reverse-charge pair equals
\* its credit bucket exactly, both being the VAT of the mapped eingang invoices
\* of the pair's treatments and nothing else
C5_RcSymmetry ==
    Calculated =>
        LET selected == SelectInvoices(UserA, resp.request.year[1], resp.request.month[1])
        IN  \A p \in RcPairTreatments :
                /\ resp.data.cols[p[1]] = resp.data.cols[p[2]]
                /\ resp.data.cols[p[1]] = VatOfEingang(selected, Mapped, p[3])

\* a period with reverse-charge purchases of two categories has been calculated
C5_Witness ==
    /\ Calculated
    /\ resp.data.cols["057_ust"] > 0
    /\ resp.data.cols["048_ust"] > 0
    /\ resp.data.cols["082_vorsteuer"] = resp.data.cols["048_ust"]

\* the net amounts of the issued invoices among idx with tax treatment normal
RECURSIVE NetOfAusgangNormal(_, _)
NetOfAusgangNormal(selected, idx) ==
    IF idx = {} THEN 0
    ELSE LET i == CHOOSE x \in idx : TRUE
             inv == selected[i]
         IN  (IF inv.invoice_type = Some("ausgang") /\ inv.tax_treatment = Some("normal")
              THEN NumberOr(inv.net_amount, 0) ELSE 0)
             + NetOfAusgangNormal(selected, idx \ {i})

RateNettoBuckets ==
    { "022_netto", "029_netto", "006_netto", "037_netto", "052_netto", "007_netto" }

\* C6: the net amounts of the ausgang invoices with treatment normal add up to the
\* sum of the _netto fields of the rate buckets 022, 029, 006, 037, 052 and 007
\* of the row that calculate returns
C6_NormalNetto ==
    Calculated =>
        LET selected == SelectInvoices(UserA, resp.request.year[1], resp.request.month[1])
        IN  NetOfAusgangNormal(selected, 1..Len(selected))
                = SumOver(resp.data.cols, RateNettoBuckets)

\* C7: calculate drops no invoice: every invoice of the period is counted under its
\* type, and the VAT of every eingang reverse-charge invoice, also of one given by
\* its VAT amount alone, is in both buckets of its pair; a zero amount only warns
C7_NoInvoiceDropped ==
    Calculated =>
        LET selected == SelectInvoices(UserA, resp.request.year[1], resp.request.month[1])
            all == 1..Len(selected)
        IN  /\ resp.summary.ausgangCount + resp.summary.eingangCount = Len(selected)
            /\ \A p \in RcPairTreatments :
                  /\ resp.data.cols[p[1]] = VatOfEingang(selected, all, p[3])
                  /\ resp.data.cols[p[2]] = VatOfEingang(selected, all, p[3])

MonthText == << "01", "02", "03", "04", "05", "06", "07", "08", "09", "10", "11", "12" >>

\* C10: the due date of a calculated period is the 15th of the second month after
\* it, in the next year for the months 11 and 12: 2026-03 gives 2026-05-15,
\* 2024-12 gives 2025-02-15, and month 11 gives January of the next year
C10_DueDate ==
    Calculated =>
        LET year == resp.request.year[1]
            month == resp.request.month[1]
            second == year * 12 + (month - 1) + 2
            due == resp.data.due_date
        IN  /\ due = ToString(second \div 12) \o "-" \o MonthText[(second % 12) + 1] \o "-15"
            /\ month + 2 <= 12 => due = ToString(year) \o "-" \o MonthText[month + 2] \o "-15"
            /\ month + 2 > 12 => due = ToString(year + 1) \o "-" \o MonthText[month - 10] \o "-15"
            /\ (year = 2026 /\ month = 3) => due = "2026-05-15"
            /\ (year = 2024 /\ month = 12) => due = "2025-02-15"
            /\ month = 11 => due = ToString(year + 1) \o "-01-15"

\* December 2024 has been calculated and falls due in February 2025
C10_Witness ==
    /\ Calculated
    /\ resp.request = Body(Some(2024), Some(12))
    /\ resp.data.due_date = "2025-02-15"
    /\ \E row \in uva_periods : row.period_month = 11 /\ row.due_date = "2027-01-15"

----------------------------------------------------------------------------
(* Claims about the XML export *)

Exported == resp.op = "export" /\ resp.status = 200

\* C8: the exported document has a KZ element only for a KZ field that is not
\* zero; no element carries 0.00
C8_ZeroOmitted ==
    Exported => \A i \in 1..Len(resp.xml.KENNZAHLEN) : resp.xml.KENNZAHLEN[i].text # "0.00"

\* the characters of a text that are letters, digits, "/" or "-", in their order
RECURSIVE Filtered(_)
Filtered(chars) ==
    IF chars = <<>> THEN <<>>
    ELSE (IF Head(chars) \in AllowedChars THEN << Head(chars) >> ELSE <<>>)
             \o Filtered(Tail(chars))

\* the first n characters of a text
Take(chars, n) == [i \in 1..(IF Len(chars) < n THEN Len(chars) ELSE n) |-> chars[i]]

\* an export request for a period that has been calculated has been answered
ExportAnswered ==
    /\ resp.op = "export"
    /\ validateInput(resp.request)
    /\ uva_periods # {}

\* C9 as amended: a steuernummer that is not a string or is longer than 20
\* characters is refused with status 400 and no document; for every other input
\* the document's STEUERNUMMER is the input's characters of [A-Za-z0-9/-], or
\* 000/0000 when the input is missing or none of its characters is left, and
\* always has between 1 and 20 characters, all of them allowed
C9_Steuernummer ==
    ExportAnswered =>
        LET given == resp.request.steuernummer
        IN  IF given # NULL /\ (given[1].type # "string"
                                  \/ Len(given[1].val) > MaxSteuernummerLen)
            THEN resp.status = 400
            ELSE /\ resp.status = 200
                 /\ LET out == resp.xml.STEUERNUMMER
                        kept == IF given = NULL THEN <<>> ELSE Filtered(given[1].val)
                    IN  /\ out = IF kept = <<>> THEN DefaultSteuernummer ELSE kept
                        /\ Len(out) \in 1..MaxSteuernummerLen
                        /\ \A i \in 1..Len(out) : out[i] \in AllowedChars

\* C9 as stated: every steuernummer input gets a document, an over-long or
\* malformed one truncated to 20 allowed characters or defaulted
C9_Original ==
    ExportAnswered =>
        /\ resp.status = 200
        /\ LET given == resp.request.steuernummer
               kept == IF given = NULL \/ given[1].type # "string" THEN <<>>
                       ELSE Take(Filtered(given[1].val), MaxSteuernummerLen)
           IN  resp.xml.STEUERNUMMER = IF kept = <<>> THEN DefaultSteuernummer ELSE kept

\* a document for a steuernummer that lost characters to the filter
C9_Witness ==
    /\ ExportAnswered
    /\ resp.status = 200
    /\ resp.request.steuernummer # NULL
    /\ Len(resp.request.steuernummer[1].val) = MaxSteuernummerLen
    /\ Len(resp.xml.STEUERNUMMER) < MaxSteuernummerLen
    /\ resp.xml.STEUERNUMMER # DefaultSteuernummer

----------------------------------------------------------------------------
(* Claims about confirm *)

\* the submission records kept for a key and a period
RecordsOf(key, period) ==
    { i \in 1..Len(submissions) :
        submissions[i].idempotency_key = key /\ submissions[i].period = period }

\* C1: a confirm whose key has no record for the period answers was_duplicate = FALSE
\* and, when it goes through, leaves exactly one record for the key; a confirm whose
\* key has a record answers the stored result with was_duplicate = TRUE and leaves
\* the period's status, the submission records and the idempotency store as they were
C1_ConfirmTwice ==
    [][\A c \in Callers :
          LET me == callers[c]
              first == RecordsOf(me.key, me.period) = {}
          IN  /\ (me.pc = "check" /\ callers'[c].pc = "release" /\ first)
                    => ~callers'[c].result.was_duplicate /\ ~callers'[c].result.success
              /\ (me.pc = "commit" /\ callers'[c].pc = "release")
                    => /\ first
                       /\ callers'[c].result.success
                       /\ ~callers'[c].result.was_duplicate
                       /\ Cardinality(RecordsOf(me.key, me.period)') = 1
              /\ (me.pc = "check" /\ callers'[c].pc # "check" /\ ~first)
                    => /\ callers'[c].pc = "release"
                       /\ callers'[c].result =
                            [success |-> TRUE,
                             message |-> submissions[CHOOSE i \in
                                            RecordsOf(me.key, me.period) : TRUE].status,
                             was_duplicate |-> TRUE]
                       /\ UNCHANGED <<period_status, submissions, idem_store>>
      ]_vars

\* a second confirm with the key of a recorded submission has returned
C1_Witness ==
    \E c \in Callers :
        /\ callers[c].pc = "idle"
        /\ callers[c].result.success
        /\ callers[c].result.was_duplicate
        /\ Cardinality(RecordsOf(callers[c].key, callers[c].period)) = 1
        /\ period_status[callers[c].period] = callers[c].result.message

\* the callers that hold the answer to a confirm with this key for this period
Returned(key, period) ==
    { c \in Callers : /\ callers[c].key = key
                      /\ callers[c].period = period
                      /\ callers[c].pc \in { "release", "idle" }
                      /\ callers[c].result.success }

\* C2: however confirm calls with one key for one period interleave, there are never
\* two submission records for the key, at most one of the calls answers
\* was_duplicate = FALSE, and every call that went through rests on the one record
C2_NoDoubleSubmission ==
    \A key \in Keys, period \in Periods :
        /\ Cardinality(RecordsOf(key, period)) <= 1
        /\ Cardinality({ c \in Returned(key, period) :
                            ~callers[c].result.was_duplicate }) <= 1
        /\ Returned(key, period) # {} => Cardinality(RecordsOf(key, period)) = 1
        /\ \A c \in Callers :
             (callers[c].pc = "commit" /\ callers[c].key = key /\ callers[c].period = period)
                => RecordsOf(key, period) = {} /\ lock = c

\* two calls with one key are in flight: one has recorded the submission and still
\* holds the lock, the other waits for it
C2_Witness ==
    \E c, d \in Callers :
        /\ c # d
        /\ callers[c].key = callers[d].key
        /\ callers[c].period = callers[d].period
        /\ callers[c].pc = "release"
        /\ callers[c].result.success /\ ~callers[c].result.was_duplicate
        /\ callers[d].pc = "acquire"

----------------------------------------------------------------------------
(* Claims about the stored status and the stored row *)

PeriodRecords(period) ==
    { i \in 1..Len(submissions) : submissions[i].period = period }

\* C12: once a period has a submission record, a confirm under another key is rejected:
\* no step adds a second record for the period, changes the stored record or the status
C12_ConflictRejected ==
    [][ \A period \in Periods :
          PeriodRecords(period) # {} =>
            /\ PeriodRecords(period)' = PeriodRecords(period)
            /\ \A i \in PeriodRecords(period) : submissions'[i] = submissions[i]
            /\ period_status'[period] = period_status[period] ]_vars

----------------------------------------------------------------------------
(* Claims about prepare *)

Prepared == resp.op = "prepare" /\ resp.status = 200

\* C13: a prepare call, ready or not, leaves the stored status, the stored KZ row, the
\* submission records and the idempotency store as they were
C13_PrepareFrame ==
    [][ (resp' # resp /\ resp'.op = "prepare") =>
          /\ period_status' = period_status
          /\ uva_periods' = uva_periods
          /\ submissions' = submissions
          /\ idem_store' = idem_store ]_vars

\* prepare has answered ready for a period whose row is stored, after a confirm has
\* left a submission record and an idempotency entry
C13_Witness ==
    /\ Prepared /\ resp.result.ready
    /\ uva_periods # {} /\ submissions # <<>> /\ idem_store # <<>>

\* the failed items of one severity in the checklist of the response
FailedOf(severity) ==
    { i \in 1..Len(resp.result.checklist) :
        /\ ~resp.result.checklist[i].passed
        /\ resp.result.checklist[i].severity = severity }

\* C14: prepare answers ready exactly when blocking_issues is 0, blocking_issues counts
\* the failed items of severity error, and a failed warning item counts in warnings only
C14_ReadyIffNoBlocking ==
    Prepared =>
        /\ resp.result.ready <=> resp.result.blocking_issues = 0
        /\ resp.result.blocking_issues = Cardinality(FailedOf("error"))
        /\ resp.result.warnings = Cardinality(FailedOf("warning"))
        /\ (FailedOf("error") = {} /\ FailedOf("warning") # {}) => resp.result.ready

\* prepare has answered ready although the warning item (no invoices linked) failed
C14_Witness ==
    /\ Prepared /\ resp.result.ready
    /\ resp.result.blocking_issues = 0 /\ resp.result.warnings = 1
    /\ ~resp.request.linked

\* the rows stored for the period of the model
PeriodRows ==
    { r \in uva_periods : /\ r.user_id = UserA
                          /\ r.period_year = ThePeriod[1]
                          /\ r.period_month = ThePeriod[2] }

\* the KZ columns a calculation over exactly the given invoices yields
FreshCols(selected) ==
    uvaData(UserA, ThePeriod[1], ThePeriod[2], ProcessInvoices(AccInit, selected).kz).cols

\* C15: after a calculate the period has one row, and its KZ columns are those of a
\* computation from zero over the invoices now selected, whatever row was stored before;
\* a second calculate over the same invoices leaves the same values
C15_FullRecompute ==
    Calculated =>
        /\ Cardinality(PeriodRows) = 1
        /\ \A r \in PeriodRows :
             /\ r.cols = FreshCols(SelectInvoices(UserA, ThePeriod[1], ThePeriod[2]))
             /\ r = resp.data

\* calculate has run over fewer invoices than the calculation that left the stored
\* row, here over none, and the row holds zeros only
C15_Witness ==
    /\ Calculated
    /\ Len(audit_log) = 2
    /\ audit_log[1].details.invoice_count > 0
    /\ audit_log[2].details.invoice_count = 0
    /\ \A r \in PeriodRows : \A c \in RowCols : r.cols[c] = 0

----------------------------------------------------------------------------
(* Claims about rejected requests and the audit entries *)

\* year is no integer of 2000..2100 or month is no integer of 1..12
OutOfRange(body) ==
    \/ body.year = NULL \/ body.month = NULL
    \/ body.year[1] \notin 2000..2100
    \/ body.month[1] \notin 1..12

\* C16: a calculate or export request whose year or month is out of range is answered
\* 400 with nothing of the tables in the answer, no row of invoices or uva_periods is
\* created or changed and no audit entry is written
C16_RejectedBeforeWork ==
    [][ (resp' # resp /\ resp'.op \in { "calculate", "export" } /\ OutOfRange(resp'.request)) =>
          /\ resp'.status = 400
          /\ DOMAIN resp' = { "op", "status", "request" }
          /\ invoices' = invoices
          /\ uva_periods' = uva_periods
          /\ audit_log' = audit_log ]_vars

\* a request for the year 1999 has been rejected while a calculated row and its audit
\* entry are stored
C16_Witness ==
    /\ resp.op \in { "calculate", "export" }
    /\ resp.status = 400
    /\ resp.request.year = Some(1999)
    /\ uva_periods # {} /\ audit_log # <<>> /\ invoices # <<>>

\* C17: whether or not the audit insert succeeds, a calculate request with a valid
\* period is answered 200 and the row it answers with is the row stored, and an export
\* request for a stored period is answered 200 with its document
C17_AuditNeverBlocks ==
    [][ (resp' # resp /\ ~OutOfRange(resp'.request)) =>
          /\ resp'.op = "calculate" =>
               /\ resp'.status = 200
               /\ resp'.data \in uva_periods'
               /\ Cardinality(PeriodRows') = 1
          /\ (resp'.op = "export" /\ PeriodRows # {}) =>
               /\ resp'.status = 200
               /\ "xml" \in DOMAIN resp' ]_vars

\* the audit table takes no inserts, calculate has answered 200 and stored the row of a
\* period that had none, and no audit entry was written
C17_Witness ==
    /\ ~audit_up
    /\ Calculated
    /\ resp.data \in uva_periods
    /\ audit_log = <<>>

\* C18: no audit entry written by calculate or export carries raw invoice content: no
\* warning in its details holds an invoice's number or id (ref) or an invoice's VAT
\* amount (vat, expected)
C18_NoRawInvoiceContent ==
    \A i \in 1..Len(audit_log) :
        "warnings" \in DOMAIN audit_log[i].details =>
            \A j \in 1..Len(audit_log[i].details.warnings) :
                DOMAIN audit_log[i].details.warnings[j] \cap { "ref", "vat", "expected" } = {}

\* C19: the audit log never holds more than AuditCapacity entries, and a step changes
\* it only by appending one entry, dropping the oldest entry first when the log is full
C19_BoundedAppendOnly ==
    [][ /\ Len(audit_log') <= AuditCapacity
        /\ audit_log' # audit_log =>
             /\ audit_log' # <<>>
             /\ SubSeq(audit_log', 1, Len(audit_log') - 1) =
                  IF Len(audit_log) < AuditCapacity THEN audit_log ELSE Tail(audit_log) ]_vars

\* C20: calculate over no invoices is answered 200 with every KZ column 0 and kz095 0,
\* and validate on an all-zero map answers valid with the info "leermeldung", no error
C20_EmptyPeriod ==
    /\ (Calculated /\ SelectInvoices(UserA, ThePeriod[1], ThePeriod[2]) = <<>>) =>
          /\ \A c \in RowCols : resp.data.cols[c] = 0
          /\ resp.summary.kz095 = 0
          /\ resp.summary.invoiceCount = 0
          /\ resp.data \in uva_periods
    /\ (Validated /\ \A c \in RowCols : resp.request[c] = 0) =>
          /\ resp.result.valid
          /\ resp.result.errors = {}
          /\ "leermeldung" \in resp.result.infos

\* the period without invoices was calculated and its all-zero map validated
C20_Witness ==
    /\ invoices = <<>>
    /\ Validated
    /\ \A c \in RowCols : resp.request[c] = 0
    /\ \E r \in uva_periods : r.cols = resp.request
    /\ resp.result.valid

----------------------------------------------------------------------------
(* Claims about the mapping of single invoices *)

\* the invoices the last calculate request selected
Selected == SelectInvoices(UserA, resp.request.year[1], resp.request.month[1])

\* vat_amount deviates from net_amount * vat_rate / 100 by more than 2 %
Deviates(inv) ==
    /\ inv.net_amount # NULL /\ inv.vat_rate # NULL
    /\ LET expected100 == inv.net_amount[1] * inv.vat_rate[1]
       IN  100 * Abs(expected100 - 100 * NumberOr(inv.vat_amount, 0)) > 2 * Abs(expected100)

\* C21: after calculate, every selected invoice whose VAT amount deviates by more than
\* 2 % has its VAT warning among the warnings of the answer, whatever its type and
\* treatment
C21_VatWarningForEvery ==
    Calculated =>
        Cardinality({ j \in 1..Len(resp.summary.warnings) :
                        resp.summary.warnings[j].code = "vat_mismatch" })
          = Cardinality({ i \in 1..Len(Selected) : Deviates(Selected[i]) })

\* the exemption bucket the claim names for each tax-free treatment of a sale
ExemptionBucket ==
    [ export |-> "011_netto", ig_lieferung |-> "015_netto", lohnveredelung |-> "017_netto",
      dreiecksgeschaeft |-> "012_netto", fahrzeug_ohne_uid |-> "018_netto",
      grundstueck |-> "019_netto", kleinunternehmer |-> "016_netto",
      steuerbefreit_sonstige |-> "020_netto" ]

\* C22: a period whose only invoice is a tax-free sale has the invoice's net amount in
\* the exemption bucket of its treatment and 0 in every other KZ field
C22_TaxFreeOneBucket ==
    (/\ Calculated
     /\ Len(Selected) = 1
     /\ Selected[1].invoice_type = Some("ausgang")
     /\ Selected[1].tax_treatment # NULL
     /\ Selected[1].tax_treatment[1] \in DOMAIN ExemptionBucket) =>
        \A k \in KzKeys :
            resp.data.cols[k] =
                IF k = ExemptionBucket[Selected[1].tax_treatment[1]]
                THEN Selected[1].net_amount[1] ELSE 0

\* the mapped invoices that are IG acquisitions
IgErwerbe ==
    { i \in Mapped : /\ Selected[i].invoice_type = Some("eingang")
                     /\ Selected[i].tax_treatment = Some("ig_erwerb") }

\* the sum of one amount column over a set of the selected invoices
RECURSIVE AmountOver(_, _)
AmountOver(idx, column) ==
    IF idx = {} THEN 0
    ELSE LET i == CHOOSE x \in idx : TRUE
         IN  NumberOr(Selected[i][column], 0) + AmountOver(idx \ {i}, column)

\* C23: after calculate, KZ070 is the sum of the netto fields of the IG rate buckets
\* 072, 073, 008 and 088, the credit bucket 065 is the sum of their ust fields, and both
\* are the net and the VAT of the IG acquisitions of the period
C23_IgSymmetry ==
    Calculated =>
        LET cols == resp.data.cols
        IN  /\ cols["070_netto"] = cols["072_netto"] + cols["073_netto"]
                                   + cols["008_netto"] + cols["088_netto"]
            /\ cols["065_vorsteuer"] = cols["072_ust"] + cols["073_ust"]
                                       + cols["008_ust"] + cols["088_ust"]
            /\ cols["070_netto"] = AmountOver(IgErwerbe, "net_amount")
            /\ cols["065_vorsteuer"] = AmountOver(IgErwerbe, "vat_amount")

\* a period with IG acquisitions at two rates has been calculated
C23_Witness ==
    /\ Calculated
    /\ resp.data.cols["072_netto"] > 0
    /\ resp.data.cols["088_netto"] > 0
    /\ resp.data.cols["065_vorsteuer"] > 0

\* the selected invoices that are sales
Ausgaenge == { i \in 1..Len(Selected) : Selected[i].invoice_type = Some("ausgang") }

\* the netto fields of the taxable-rate buckets and of the tax-free buckets
SupplyBuckets ==
    { "022_netto", "029_netto", "006_netto", "037_netto", "052_netto", "007_netto",
      "011_netto", "012_netto", "015_netto", "017_netto", "018_netto",
      "019_netto", "016_netto", "020_netto" }

\* C24: after calculate, KZ000 is the sum of the net amounts of the ausgang invoices
\* and the sum of the netto fields of sections 1 to 3; eingang invoices add nothing
C24_Kz000 ==
    Calculated =>
        /\ resp.data.cols["000_netto"] = AmountOver(Ausgaenge, "net_amount")
        /\ resp.data.cols["000_netto"] = SumOver(resp.data.cols, SupplyBuckets)

\* a period with a tax-free sale and a purchase has been calculated: KZ000 holds the
\* net of the sale alone
C24_Witness ==
    /\ Calculated
    /\ resp.summary.ausgangCount = 1 /\ resp.summary.eingangCount = 1
    /\ resp.data.cols["011_netto"] > 0
    /\ resp.data.cols["060_vorsteuer"] > 0
    /\ resp.data.cols["000_netto"] = resp.data.cols["011_netto"]

\* C25: when the calculate requests in flight for one period have all finished, each
\* of them succeeded and the period has exactly one row, the row one of them returned
Finished == \A c \in Requests : requests[c].pc = "done"

C25_BothSucceed ==
    Finished =>
        /\ \A c \in Requests : requests[c].status = 200
        /\ Cardinality(ExistingPeriods(UserA, ThePeriod[1], ThePeriod[2])) = 1
        /\ \E c \in Requests :
              requests[c].status = 200 /\ requests[c].row \in uva_periods

\* C26: every validate, prepare, export and confirm request of the page is for the
\* period the engine result it hands over (or relies on) was produced for; confirm is
\* sent for a period only while the prepare result held is a ready one for that period
C26_SamePeriodResults ==
    \A r \in page.sent :
        r.op \in { "validate", "prepare", "export", "confirm" } => r.uses = r.period

\* the audit entries of completed calculates, oldest first
CalcEntries == SelectSeq(audit_log, LAMBDA e : e.action = "uva_calculated")

\* what a well-formed export request got: not-found when the period has no row, else
\* the document of the stored row, which is the row of the latest calculate
ExportReflectsRow ==
    (resp.op = "export" /\ validateExportInput(resp.request).ok) =>
        LET parsed == validateExportInput(resp.request)
            found == ExistingPeriods(UserA, parsed.year, parsed.month)
        IN  IF found = {}
            THEN resp.status = 404
            ELSE /\ resp.status = 200
                 /\ \A uva \in found :
                      /\ resp.xml.ZEITRAUM =
                           ToString(uva.period_year) \o "-" \o PadStart2(uva.period_month)
                      /\ \A i \in 1..Len(XmlFields) :
                           resp.xml.KENNZAHLEN[i] =
                               [tag |-> XmlFields[i][1],
                                text |-> fmtAmt(uva.cols[XmlFields[i][2]])]
                      /\ audit_up =>
                           /\ CalcEntries # <<>>
                           /\ CalcEntries[Len(CalcEntries)].entity_id = uva.id
                           /\ CalcEntries[Len(CalcEntries)].details.kz095
                                = uva.cols["095_betrag"]

\* C27: export answers a well-formed request with a document only when the period's
\* row exists, which a completed calculate stored, and with not-found otherwise; the
\* document carries the values the latest calculate stored; an export step leaves
\* uva_periods as it is
C27_ExportAfterCalculate ==
    /\ []ExportReflectsRow
    /\ [][Export => uva_periods' = uva_periods]_vars

\* a document for a row that a calculate overwrote since the first one
C27_Witness ==
    /\ Exported
    /\ ~audit_up
    /\ CalcEntries # <<>>
    /\ \E uva \in ExistingPeriods(UserA, ThePeriod[1], ThePeriod[2]) :
          CalcEntries[1].details.kz095 # uva.cols["095_betrag"]

\* C28: once an OCR request that set its invoice to processing has returned, the
\* invoice is in completed or error, whichever step failed
C28_NotLeftProcessing ==
    (ocr.pc = "done" /\ ocr.status # 403) =>
        invoices[ocr.invoiceId].ocr_status \in { "completed", "error" }

\* the requests the page's last handler sent to the calculation engine
EngineCalculations == { r \in page.sent : r.op = "calculate" /\ r.to = "engine" }

\* C29: the invoices the page hands to the engine for a period are the invoices
\* calculate-uva selects for it: the user's completed invoices dated in the month
C29_SameInvoices ==
    \A r \in EngineCalculations :
        { r.invoices[i].id : i \in 1..Len(r.invoices) }
            = { inv.id : inv \in { SelectInvoices(UserA, r.period[1], r.period[2])[j] :
                    j \in 1..Len(SelectInvoices(UserA, r.period[1], r.period[2])) } }

\* the table as it would be without the other accounts' invoices
OwnInvoices(user) == SelectSeq(invoices, LAMBDA inv : inv.user_id = user)

\* the period rows of the other accounts
RowsOfOthers(rows, user) == { r \in rows : r.user_id # user }

\* a calculate answers and stores what the caller's own invoices give
CalculateFromOwn ==
    Calculated =>
        LET user == resp.data.user_id
            own == SelectSeq(OwnInvoices(user), LAMBDA inv :
                       /\ inv.ocr_status = "completed"
                       /\ inv.invoice_month = Some(<<resp.data.period_year,
                                                     resp.data.period_month>>))
            acc == ProcessInvoices(AccInit, own)
        IN  /\ resp.data.cols = uvaData(user, resp.data.period_year,
                                        resp.data.period_month, acc.kz).cols
            /\ resp.summary = CalcSummary(Len(own), acc)
            /\ resp.data \in uva_periods

\* C30: what calculate and export give an account depends on that account's data
\* only: calculate computes from the caller's invoices and writes the caller's row,
\* leaving the rows of others as they are; export reads the caller's row
C30_UserIsolation ==
    /\ []CalculateFromOwn
    /\ [][\A user \in Users :
            /\ (\E body \in CalcBodies : CalculateUva(user, body)) =>
                  /\ RowsOfOthers(uva_periods', user) = RowsOfOthers(uva_periods, user)
                  /\ resp'.status = 200 => resp'.data.user_id = user
            /\ (\E body \in ExportBodies : ExportUvaXml(user, body)) =>
                  /\ uva_periods' = uva_periods
                  /\ IF ExistingPeriods(user, ThePeriod[1], ThePeriod[2]) = {}
                     THEN resp'.status = 404
                     ELSE \E uva \in ExistingPeriods(user, ThePeriod[1], ThePeriod[2]) :
                             resp'.xml.KENNZAHLEN = Kennzahlen(uva)]_vars

\* an account has calculated while the other account has a completed invoice in the
\* same period and a stored row for it
C30_Witness ==
    /\ Calculated
    /\ resp.data.user_id = UserA
    /\ \E i \in 1..Len(invoices) : invoices[i].user_id = UserB
    /\ \E i \in 1..Len(invoices) : invoices[i].user_id = UserA
    /\ RowsOfOthers(uva_periods, UserA) # {}

====
